---------------------------- MODULE Spec2Model ----------------------------
(***************************************************************************)
(* A model of the tenant runtime of src/main.py (a multi-tenant Telegram   *)
(* bot service on PostgreSQL): the withdrawal approval workflow, the       *)
(* referral credit of upsert_user, the daily scan quota, the scanner       *)
(* cooldown and the creation of withdrawal requests.                       *)
(*                                                                         *)
(* Storage is PostgreSQL at its default isolation level (READ COMMITTED;   *)
(* sa.create_engine is called without isolation_level).  A transaction     *)
(* (engine.begin()) is a handler-local write set that becomes visible at   *)
(* its commit; a plain SELECT reads committed rows; SELECT ... FOR UPDATE, *)
(* UPDATE and INSERT ... ON CONFLICT take the row's lock, wait while        *)
(* another transaction holds it and then act on the newest committed       *)
(* version of the row.  Locks are held until the transaction ends.         *)
(*                                                                         *)
(* Money is counted in whole units.  A Python float or a NUMERIC value is  *)
(* a record: a finite number v, or NaN (float("nan") parses, and NUMERIC   *)
(* holds NaN).  NULL is the empty sequence <<>>, a non-NULL value v <<v>>. *)
(***************************************************************************)
EXTENDS Integers, Sequences, FiniteSets, TLC

VARIABLES
    \* ---- withdrawal approval workflow (telegram_webhook) ----
    balance,      \* users.balance of the requesting user, committed
    wd,           \* withdrawals rows, committed: id -> row
    pc,           \* position of each webhook handler
    ev,           \* the event a handler is processing
    tx,           \* a handler's locals and its uncommitted writes
    lockU,        \* holder of the user row's lock (0: free)
    lockW,        \* holder of each withdrawals row's lock (0: free)
    outcome,      \* the reply a handler gave to the admin
    nEvents,      \* events delivered so far
    nCredits,     \* referral credits applied to this user so far
    debits,       \* history: the committed debits made for each request
    lateStart,    \* history: the request was terminal when the event arrived
    tg,           \* whether an outbound call of a handler's notifications failed
    \* ---- referral credit (upsert_user) ----
    users,        \* users rows, committed: user_id -> NULL or <<row>>
    rpc,          \* position of each handler inside upsert_user
    rtx,          \* its arguments, locals and uncommitted writes
    rlock,        \* holder of each users row's lock (0: free)
    credits,      \* history: committed upline credits made for each new user
    nRefEvents,   \* events delivered so far
    affiliate_amount, \* bots.affiliate_amount of the tenant, committed
    \* ---- daily scan quota (scan_daily_touch_or_block) ----
    scan_limit_per_day,  \* bots.scan_limit_per_day of the tenant (NULL: none)
    limit_override,      \* scan_limit_overrides.limit_per_day of the user (NULL: no row)
    usage,        \* scan_daily_usage.count of (tenant, user, today), committed (NULL: no row)
    qpc,          \* position of each caller
    qtx,          \* the tuple the call returned and its uncommitted count
    qlock,        \* holder of the usage row's lock (0: free)
    admitted,     \* history: calls that returned allowed = True under a limit
    nScanEvents,  \* calls and admin commands so far
    override_deleted, \* history: /setscanlimit del has removed the user's override
    \* ---- scanner cooldown (scanner_check_and_touch_cooldown) ----
    clock,        \* wall clock, in ticks
    last_at,      \* scanner_cooldowns.last_at of (tenant, user, provider), committed (NULL: no row)
    cpc,          \* position of each caller
    ctx,          \* the caller's now, its return value and its uncommitted last_at
    clock_lock,   \* holder of the cooldown row's lock (0: free)
    admits,       \* history: the now of every check that returned 0, in order
    nCoolEvents,  \* checks made so far
    \* ---- withdrawal request creation (process_withdraw) ----
    min_withdraw_amount, \* bots.min_withdraw_amount of the tenant (NULL: not set)
    ubalance,     \* users.balance of the requesting user
    user_state,   \* user_states.state of the user (NULL: no row)
    withdrawals,  \* the rows inserted into withdrawals, in order
    outbox,       \* messages sent to the user's chat, in order
    wpc,          \* position of each handler
    wtx,          \* the handler's locals: text_msg, bal0
    nReqEvents,   \* messages delivered so far
    \* ---- session states and message routing (telegram_webhook, set_user_state) ----
    is_admin,     \* require_admin(bot_row, uid) of the user
    user_states,  \* the user_states rows of (tenant, user), committed
    spc,          \* position of each webhook handler
    stx,          \* the handler's text, the state it read and the handler it chose
    last_write,   \* history: the row of the last set_user_state (NULL after a clear)
    nSessEvents,  \* messages delivered so far
    \* ---- premium gating (ensure_access, adm: buttons, /approve and /reject replies) ----
    manual_approval, \* bots.manual_approval, committed
    lock_bot,     \* bots.lock_bot, committed
    target_admin, \* require_admin(bot_row, uid) of the user the events are about
    is_verified,  \* users.is_verified of that user, committed
    is_premium,   \* users.is_premium of that user, committed
    ppc,          \* position of each premium-gating handler
    ptx,          \* locals of each handler: event kind, bot_row and user row it read
    received,     \* what the user has been sent so far
    nPremEvents,  \* events delivered so far
    \* ---- deferred actions (cb: buttons with delay, /task/action, /task/broadcast, the timer fallback) ----
    TASKS_SECRET, \* the TASKS_SECRET of the environment (empty: unset)
    tasks_configured, \* whether the other Cloud Tasks settings of can_use_tasks_action are present
    action,       \* the actions row stored under the key (NULL: none)
    dbot,         \* the bots row of the tenant, committed
    dpc,          \* position of the webhook handler of each button press
    dtx,          \* its locals: the bot_row and the Action it read
    scheduled,    \* the deferred task or timer of each press
    dlog,         \* history: the edits, schedulings and sends, in order
    nDeferEvents, \* admin changes and foreign requests so far
    \* ---- button markup (parse_buttons) ----
    template,     \* the text handed to parse_buttons, as its lines
    bpc,          \* whether parse_buttons has run
    parsed,       \* the pair parse_buttons returned: visible lines and keyboard rows
    \* ---- outgoing HTML (sanitize_telegram_html, _trim and the send and edit helpers) ----
    html_text,    \* the text or caption handed to a helper, as its characters
    html_path,    \* the helper that sends it
    hpc,          \* whether the helper has run
    html_payload, \* the text or caption field of the request to the platform (NULL: no request)
    \* ---- contact verification (handle_contact) ----
    contacts,     \* users rows of the tenant, committed: user_id -> NULL or <<[phone, is_verified]>>
    kpc,          \* position of each handle_contact
    ktx,          \* its message and its uncommitted UPDATE
    klock,        \* holder of each users row's lock (0: free)
    verified_by,  \* history: the contact owner id of the message that verified each user (0: none)
    nContactEvents,\* contact messages delivered so far
    \* ---- command dispatch (telegram_webhook, parse_command_name) ----
    cmd_text,     \* the text of the message, as its characters
    cmd_store,    \* the command names that have an Action cmd:<name> in the store
    cmd_pc,       \* whether the webhook has handled the message
    cmd_ran,      \* what the webhook ran: the built-in, the key looked up, whether an Action was rendered
    \* ---- withdrawal approval across tenants (telegram_webhook of two bots) ----
    tw,           \* the withdrawals row of the request, committed
    tbal,         \* users.balance of the requesting user's row in each tenant
    tlast,        \* history: the tenant whose webhook handled the last event
    nTenantEvents,\* events handled so far
    \* ---- authorization of admin events (is_owner, is_admin, require_admin) ----
    admin_row,    \* the admins row of the user called admin (NULL: no row; expiry_at NULL: permanent)
    auth_now,     \* utcnow(), in ticks
    auth_status,  \* withdrawals.status of a request of the tenant
    auth_balance, \* users.balance of the requesting user
    auth_premium, \* users.is_premium of the user the premium events are about
    auth_last,    \* history: the sender of the last event and whether require_admin held for it
    nAuthEvents,  \* events handled so far
    \* ---- a press of a scanner button (daily limit gate, scanner fallback) ----
    scan_limit,   \* the user's limit: NULL or <<n>>
    scan_count,   \* scan_daily_usage.count of today: NULL (no row) or <<n>>
    scan_cooling, \* a scanner_cooldowns row younger than the cooldown
    scan_act,     \* an Action is stored under the key
    scan_media,   \* a scanner_media row of the provider
    scan_games,   \* scanner_games rows of the provider
    scan_before,  \* the count before the last press
    scan_outcome, \* what the last press ended with
    nPresses,     \* presses so far
    \* ---- delivery of a scan result (send_scanner_result_edit and its caller) ----
    ed_media,     \* the scanner_media row handed to the delivery
    ed_shown,     \* what the pressed message shows
    ed_new,       \* new result messages the platform accepted
    ed_last,      \* the last delivery: what was returned, edited and sent
    nDeliveries   \* deliveries so far

wdVars == <<tg, balance, wd, pc, ev, tx, lockU, lockW, outcome, nEvents,
            nCredits, debits, lateStart>>

refVars == <<users, rpc, rtx, rlock, credits, nRefEvents, affiliate_amount>>

quotaVars == <<scan_limit_per_day, limit_override, usage, qpc, qtx, qlock,
               admitted, nScanEvents, override_deleted>>

coolVars == <<clock, last_at, cpc, ctx, clock_lock, admits, nCoolEvents>>

reqVars == <<min_withdraw_amount, ubalance, user_state, withdrawals, outbox,
             wpc, wtx, nReqEvents>>

sessVars == <<is_admin, user_states, spc, stx, last_write, nSessEvents>>

premVars == <<manual_approval, lock_bot, target_admin, is_verified, is_premium, ppc, ptx, received, nPremEvents>>

deferVars == <<TASKS_SECRET, tasks_configured, action, dbot, dpc, dtx, scheduled, dlog, nDeferEvents>>

btnVars == <<template, bpc, parsed>>

htmlVars == <<html_text, html_path, hpc, html_payload>>

phoneVars == <<contacts, kpc, ktx, klock, verified_by, nContactEvents>>

cmdVars == <<cmd_text, cmd_store, cmd_pc, cmd_ran>>

tenantVars == <<tw, tbal, tlast, nTenantEvents>>

authVars == <<admin_row, auth_now, auth_status, auth_balance, auth_premium, auth_last, nAuthEvents>>

scanVars == <<scan_limit, scan_count, scan_cooling, scan_act, scan_media, scan_games, scan_before, scan_outcome, nPresses>>

editVars == <<ed_media, ed_shown, ed_new, ed_last, nDeliveries>>

vars == <<wdVars, refVars, quotaVars, coolVars, reqVars, sessVars, premVars, deferVars, btnVars, htmlVars, phoneVars, cmdVars, tenantVars, authVars, scanVars, editVars>>

\* what the actions of one part leave alone
NotWd == <<refVars, quotaVars, coolVars, reqVars, sessVars, premVars, deferVars, btnVars, htmlVars, phoneVars, cmdVars, tenantVars, authVars, scanVars, editVars>>
NotRef == <<wdVars, quotaVars, coolVars, reqVars, sessVars, premVars, deferVars, btnVars, htmlVars, phoneVars, cmdVars, tenantVars, authVars, scanVars, editVars>>
NotQuota == <<wdVars, refVars, coolVars, reqVars, sessVars, premVars, deferVars, btnVars, htmlVars, phoneVars, cmdVars, tenantVars, authVars, scanVars, editVars>>
NotCool == <<wdVars, refVars, quotaVars, reqVars, sessVars, premVars, deferVars, btnVars, htmlVars, phoneVars, cmdVars, tenantVars, authVars, scanVars, editVars>>
NotReq == <<wdVars, refVars, quotaVars, coolVars, sessVars, premVars, deferVars, btnVars, htmlVars, phoneVars, cmdVars, tenantVars, authVars, scanVars, editVars>>
NotSess == <<wdVars, refVars, quotaVars, coolVars, reqVars, premVars, deferVars, btnVars, htmlVars, phoneVars, cmdVars, tenantVars, authVars, scanVars, editVars>>
NotPrem == <<wdVars, refVars, quotaVars, coolVars, reqVars, sessVars, deferVars, btnVars, htmlVars, phoneVars, cmdVars, tenantVars, authVars, scanVars, editVars>>
NotDefer == <<wdVars, refVars, quotaVars, coolVars, reqVars, sessVars, premVars, btnVars, htmlVars, phoneVars, cmdVars, tenantVars, authVars, scanVars, editVars>>
NotBtn == <<wdVars, refVars, quotaVars, coolVars, reqVars, sessVars, premVars, deferVars, htmlVars, phoneVars, cmdVars, tenantVars, authVars, scanVars, editVars>>
NotHtml == <<wdVars, refVars, quotaVars, coolVars, reqVars, sessVars, premVars, deferVars, btnVars, phoneVars, cmdVars, tenantVars, authVars, scanVars, editVars>>
NotPhone == <<wdVars, refVars, quotaVars, coolVars, reqVars, sessVars, premVars, deferVars, btnVars, htmlVars, cmdVars, tenantVars, authVars, scanVars, editVars>>
NotCmd == <<wdVars, refVars, quotaVars, coolVars, reqVars, sessVars, premVars, deferVars, btnVars, htmlVars, phoneVars, tenantVars, authVars, scanVars, editVars>>
NotTenant == <<wdVars, refVars, quotaVars, coolVars, reqVars, sessVars, premVars, deferVars, btnVars, htmlVars, phoneVars, cmdVars, authVars, scanVars, editVars>>
NotAuth == <<wdVars, refVars, quotaVars, coolVars, reqVars, sessVars, premVars, deferVars, btnVars, htmlVars, phoneVars, cmdVars, tenantVars, scanVars, editVars>>
NotScan == <<wdVars, refVars, quotaVars, coolVars, reqVars, sessVars, premVars, deferVars, btnVars, htmlVars, phoneVars, cmdVars, tenantVars, authVars, editVars>>
NotEdit == <<wdVars, refVars, quotaVars, coolVars, reqVars, sessVars, premVars, deferVars, btnVars, htmlVars, phoneVars, cmdVars, tenantVars, authVars, scanVars>>

-----------------------------------------------------------------------------
(* Bounds of the model *)

\* concurrent webhook handlers (request threads)
NProcs == 2
\* events delivered in one behaviour
MaxEvents == 2
\* largest amount an admin types after /approve, and largest amount in a request text
MaxAmt == 2
\* the user's balance when the requests are pending
MaxBal == 3
\* referral credits that arrive while withdrawals are processed
MaxCredits == 1
\* users of the tenant in the referral model; user 1 has a row from the start
NUsers == 3
\* events delivered to upsert_user in one behaviour
MaxRefEvents == 3
\* largest amount given to /setshareamt
MaxShareAmt == 2
\* largest daily limit a tenant or an override sets
MaxLimit == 2
\* calls of scan_daily_touch_or_block in one behaviour
MaxScanEvents == 4
\* clock ticks in one second (datetime resolves below a millisecond)
TicksPerSecond == 2000
\* cooldown checks in one behaviour
MaxCoolEvents == 3
\* largest small amount of a balance, a minimum or a request
MaxReqAmt == 3
\* messages of the requesting user in one behaviour
MaxReqEvents == 3
\* text messages of one user in one behaviour of the router
MaxSessEvents == 3

\* events of the premium-gating part
MaxPremEvents == 3
\* admin changes and foreign requests while presses are deferred
MaxDeferEvents == 1

Procs == 1..NProcs
Rids == {"w1", "w2"}
NULL == <<>>

\* AFFILIATE_AMOUNT, in whole units
AFFILIATE_AMOUNT == 1

Val(x) == x[1]

\* float values: the finite number v, and NaN
F(v) == [nan |-> FALSE, v |-> v]
NaN == [nan |-> TRUE, v |-> 0]

\* a < b and a <= b on floats: every comparison with NaN is False
FLt(a, b) == ~a.nan /\ ~b.nan /\ a.v < b.v
FLe(a, b) == ~a.nan /\ ~b.nan /\ a.v <= b.v

\* a - b and a + b: NaN if either is
FSub(a, b) == IF a.nan \/ b.nan THEN NaN ELSE F(a.v - b.v)
FAdd(a, b) == IF a.nan \/ b.nan THEN NaN ELSE F(a.v + b.v)

RECURSIVE SumSeq(_)
SumSeq(s) == IF s = <<>> THEN F(0) ELSE FAdd(Head(s), SumSeq(Tail(s)))

-----------------------------------------------------------------------------
(* Withdrawal approval: /approve <amount>, /reject (reply) and the wd:ap,  *)
(* wd:rj buttons                                                           *)

\* the uid of the admin whose event handler p processes
AdminOf(p) == 900 + p

\* the numbers a request text holds, in order; re.search takes the first
RequestTexts == {<<>>} \cup {<<F(a)>> : a \in 0..MaxAmt}

\* float(parts[1]) of "/approve <amount>": <<>> when the argument is missing
\* or float() raises; "/approve nan" parses
ApproveArgs == {<<>>} \cup {<<F(a)>> : a \in 0..MaxAmt} \cup {<<NaN>>}

Events ==
    [path : {"cmd"}, is_app : {TRUE}, rid : Rids, arg : ApproveArgs]
      \cup [path : {"cmd"}, is_app : {FALSE}, rid : Rids, arg : {<<>>}]
      \cup [path : {"btn"}, is_app : BOOLEAN, rid : Rids, arg : {<<>>}]

NoTx == [bal_before |-> F(0), amt |-> F(0), debit |-> FALSE, status |-> "none", at |-> 0]
NoEvent == [path |-> "none", is_app |-> FALSE, rid |-> "w1", arg |-> <<>>]

NewRequest(t) ==
    [request_text |-> t, status |-> "PENDING", approved_amount |-> NULL,
     processed_by |-> NULL, processed_at |-> NULL]

InitWd ==
    /\ balance = F(MaxBal)
    /\ wd \in [Rids -> {NewRequest(t) : t \in RequestTexts}]
    /\ pc = [p \in Procs |-> "idle"]
    /\ ev = [p \in Procs |-> NoEvent]
    /\ tx = [p \in Procs |-> NoTx]
    /\ lockU = 0
    /\ lockW = [r \in Rids |-> 0]
    /\ outcome = [p \in Procs |-> "none"]
    /\ nEvents = 0
    /\ nCredits = 0
    /\ debits = [r \in Rids |-> <<>>]
    /\ lateStart = [p \in Procs |-> FALSE]
    /\ tg = [p \in Procs |-> "none"]

\* the parts of the state a specification does not use stay as they are here
IdleWd ==
    /\ balance = F(0)
    /\ wd = [r \in Rids |-> NewRequest(<<>>)]
    /\ pc = [p \in Procs |-> "idle"]
    /\ ev = [p \in Procs |-> NoEvent]
    /\ tx = [p \in Procs |-> NoTx]
    /\ lockU = 0
    /\ lockW = [r \in Rids |-> 0]
    /\ outcome = [p \in Procs |-> "none"]
    /\ nEvents = 0
    /\ nCredits = 0
    /\ debits = [r \in Rids |-> <<>>]
    /\ lateStart = [p \in Procs |-> FALSE]
    /\ tg = [p \in Procs |-> "none"]

\* a handler returns from inside "with engine.begin()": the transaction
\* commits with whatever it wrote, all its locks are released
Finish(p, reply) ==
    /\ pc' = [pc EXCEPT ![p] = "done"]
    /\ outcome' = [outcome EXCEPT ![p] = reply]
    /\ ev' = [ev EXCEPT ![p] = NoEvent]
    /\ tx' = [tx EXCEPT ![p] = NoTx]
    /\ lockU' = IF lockU = p THEN 0 ELSE lockU
    /\ lockW' = [r \in Rids |-> IF lockW[r] = p THEN 0 ELSE lockW[r]]
    /\ UNCHANGED lateStart

\* a handler goes on to its next statement with locals t, holding the
\* locks lu and lw
Goto(p, label, t, lu, lw) ==
    /\ pc' = [pc EXCEPT ![p] = label]
    /\ tx' = [tx EXCEPT ![p] = t]
    /\ lockU' = lu
    /\ lockW' = lw
    /\ UNCHANGED <<outcome, ev, lateStart>>

\* the webhook receives an update: an /approve or /reject reply, or a wd: button
Deliver(p, e) ==
    /\ UNCHANGED NotWd
    /\ pc[p] \in {"idle", "done"}
    /\ nEvents < MaxEvents
    /\ nEvents' = nEvents + 1
    /\ ev' = [ev EXCEPT ![p] = e]
    /\ tx' = [tx EXCEPT ![p] = [NoTx EXCEPT !.at = nEvents + 1]]
    /\ pc' = [pc EXCEPT ![p] = IF e.path = "cmd" THEN "c_read" ELSE "b_lock_wd"]
    /\ outcome' = [outcome EXCEPT ![p] = "none"]
    /\ lateStart' = [lateStart EXCEPT ![p] = wd[e.rid].status # "PENDING"]
    /\ tg' = [tg EXCEPT ![p] = "none"]
    /\ UNCHANGED <<balance, wd, lockU, lockW, nCredits, debits>>

\* "if amt <= 0": the amount check of both approve paths
NotPositive(amt) == FLe(amt, F(0))

IsPending_NoCheck(row) == TRUE

\* "if wd['status'] != 'PENDING'": the conflict check of both paths
IsPending(row) == row.status = "PENDING"

\* /approve, /reject: SELECT * FROM withdrawals WHERE id=:i (no row lock),
\* the status check and the checks of the typed amount
CmdRead(p) ==
    /\ UNCHANGED NotWd
    /\ pc[p] = "c_read"
    /\ LET e == ev[p]
           row == wd[e.rid]
       IN  IF ~IsPending(row)
           THEN Finish(p, "already_processed")
           ELSE IF e.is_app
           THEN IF e.arg = <<>>
                THEN Finish(p, "format")
                ELSE IF NotPositive(Val(e.arg))
                THEN Finish(p, "invalid_amount")
                ELSE Goto(p, "c_lock_user", [tx[p] EXCEPT !.amt = Val(e.arg)],
                          lockU, lockW)
           ELSE Goto(p, "c_upd_wd", [tx[p] EXCEPT !.status = "REJECTED"],
                     lockU, lockW)
    /\ UNCHANGED <<balance, wd, nEvents, nCredits, debits, tg>>

\* "if bal_before < amt": the balance check of both approve paths
Insufficient(bal_before, amt) == FLt(bal_before, amt)

\* /approve: SELECT balance ... FOR UPDATE, the balance check and
\* UPDATE users SET balance=balance-:a
CmdLockUser(p) ==
    /\ UNCHANGED NotWd
    /\ pc[p] = "c_lock_user"
    /\ lockU = 0
    /\ IF Insufficient(balance, tx[p].amt)
       THEN Finish(p, "insufficient")
       ELSE Goto(p, "c_upd_wd",
                 [tx[p] EXCEPT !.bal_before = balance, !.debit = TRUE,
                               !.status = "APPROVED"],
                 p, lockW)
    /\ UNCHANGED <<balance, wd, nEvents, nCredits, debits, tg>>

\* /approve, /reject: UPDATE withdrawals SET status=... WHERE id=:i, which
\* waits for the row's lock and has no condition on the status
CmdUpdateWd(p) ==
    /\ UNCHANGED NotWd
    /\ pc[p] = "c_upd_wd"
    /\ lockW[ev[p].rid] = 0
    /\ Goto(p, "notify", tx[p], lockU, [lockW EXCEPT ![ev[p].rid] = p])
    /\ UNCHANGED <<balance, wd, nEvents, nCredits, debits, tg>>

\* wd:ap, wd:rj: SELECT * FROM withdrawals WHERE id=:i FOR UPDATE and the
\* status check
BtnLockWd(p) ==
    /\ UNCHANGED NotWd
    /\ pc[p] = "b_lock_wd"
    /\ lockW[ev[p].rid] = 0
    /\ IF ~IsPending(wd[ev[p].rid])
       THEN Finish(p, "already_processed")
       ELSE Goto(p, "b_lock_user", tx[p], lockU, [lockW EXCEPT ![ev[p].rid] = p])
    /\ UNCHANGED <<balance, wd, nEvents, nCredits, debits, tg>>

\* wd:ap, wd:rj: SELECT balance ... FOR UPDATE; wd:ap takes the amount from
\* the first number of the request text, checks it and writes the debit and
\* the APPROVED stamp; wd:rj writes the REJECTED stamp
BtnLockUser(p) ==
    /\ UNCHANGED NotWd
    /\ pc[p] = "b_lock_user"
    /\ lockU = 0
    /\ LET e == ev[p]
           mamt == wd[e.rid].request_text
       IN  IF e.is_app
           THEN IF mamt = <<>>
                THEN Finish(p, "no_amount")
                ELSE IF NotPositive(Val(mamt))
                THEN Finish(p, "invalid_amount")
                ELSE IF Insufficient(balance, Val(mamt))
                THEN Finish(p, "insufficient")
                ELSE Goto(p, "notify",
                          [tx[p] EXCEPT !.bal_before = balance, !.amt = Val(mamt),
                                        !.debit = TRUE, !.status = "APPROVED"],
                          p, lockW)
           ELSE Goto(p, "notify",
                     [tx[p] EXCEPT !.bal_before = balance, !.status = "REJECTED"],
                     p, lockW)
    /\ UNCHANGED <<balance, wd, nEvents, nCredits, debits, tg>>

\* the row an UPDATE withdrawals of handler p leaves: the approve statement
\* sets status, approved_amount, processed_at and processed_by, the reject
\* statement leaves approved_amount as it is
Stamp(row, p) ==
    IF tx[p].status = "APPROVED"
    THEN [row EXCEPT !.status = "APPROVED", !.approved_amount = <<tx[p].amt>>,
                     !.processed_at = <<tx[p].at>>, !.processed_by = <<AdminOf(p)>>]
    ELSE [row EXCEPT !.status = "REJECTED",
                     !.processed_at = <<tx[p].at>>, !.processed_by = <<AdminOf(p)>>]

\* the outbound calls of a transition: the message to the user and the
\* message to the admin chat (reply path), or the message to the user, the
\* edit of the admin's message and the button answer (button path)
Calls(path) == IF path = "cmd" THEN {"user", "admin"}
                               ELSE {"user", "edit", "answer"}

tg_call_Raises(ok) == IF ok THEN "result" ELSE "raise"

\* tg_call: the result of the platform, or None after logging when the
\* request raises, the body is not JSON or the platform answers not ok
tg_call(ok) == IF ok THEN "result" ELSE "None"

\* the notifications of an approval or a rejection, sent after the UPDATE
\* statements and inside "with engine.begin()", before the commit; the
\* edit of the admin's message is inside try/except, an exception of
\* another call would leave the block and roll the transaction back
Notify(p) ==
    /\ UNCHANGED NotWd
    /\ pc[p] = "notify"
    /\ \E failed \in SUBSET Calls(ev[p].path) :
          IF \E c \in Calls(ev[p].path) \ {"edit"} : tg_call(c \notin failed) = "raise"
          THEN /\ Finish(p, "error")
               /\ UNCHANGED tg
          ELSE /\ Goto(p, "commit", tx[p], lockU, lockW)
               /\ tg' = [tg EXCEPT ![p] = IF failed = {} THEN "ok" ELSE "failed"]
    /\ UNCHANGED <<balance, wd, nEvents, nCredits, debits>>

\* the block of engine.begin() ends: the transaction commits
Commit(p) ==
    /\ UNCHANGED NotWd
    /\ pc[p] = "commit"
    /\ LET r == ev[p].rid
       IN  /\ wd' = [wd EXCEPT ![r] = Stamp(wd[r], p)]
           /\ balance' = IF tx[p].debit THEN FSub(balance, tx[p].amt) ELSE balance
           /\ debits' = IF tx[p].debit
                        THEN [debits EXCEPT ![r] = Append(@, tx[p].amt)]
                        ELSE debits
    /\ Finish(p, IF tx[p].status = "APPROVED" THEN "approved" ELSE "rejected")
    /\ UNCHANGED <<nEvents, nCredits, tg>>

\* handler p waits for a lock that q holds
WaitsFor(p, q) ==
    /\ p # q
    /\ \/ pc[p] \in {"c_lock_user", "b_lock_user"} /\ lockU = q
       \/ pc[p] \in {"c_upd_wd", "b_lock_wd"} /\ lockW[ev[p].rid] = q

\* PostgreSQL's deadlock detector: a handler in a cycle of waits gets an
\* error, its transaction rolls back and the exception leaves the webhook
DeadlockAbort(p) ==
    /\ UNCHANGED NotWd
    /\ \E q \in Procs : WaitsFor(p, q) /\ WaitsFor(q, p)
    /\ Finish(p, "error")
    /\ UNCHANGED <<balance, wd, nEvents, nCredits, debits, tg>>

\* upsert_user in another handler credits this user as an upline:
\* UPDATE users SET balance=balance+:a, and its transaction commits
ReferralCredit ==
    /\ UNCHANGED NotWd
    /\ nCredits < MaxCredits
    /\ lockU = 0
    /\ balance' = FAdd(balance, F(AFFILIATE_AMOUNT))
    /\ nCredits' = nCredits + 1
    /\ UNCHANGED <<wd, pc, ev, tx, lockU, lockW, outcome, nEvents, debits, lateStart, tg>>

NextWd ==
    \/ \E p \in Procs : \E e \in Events : Deliver(p, e)
    \/ \E p \in Procs : CmdRead(p)
    \/ \E p \in Procs : CmdLockUser(p)
    \/ \E p \in Procs : CmdUpdateWd(p)
    \/ \E p \in Procs : BtnLockWd(p)
    \/ \E p \in Procs : BtnLockUser(p)
    \/ \E p \in Procs : Notify(p)
    \/ \E p \in Procs : Commit(p)
    \/ \E p \in Procs : DeadlockAbort(p)
    \/ ReferralCredit


-----------------------------------------------------------------------------
(* Referral credit: upsert_user, called by handle_start with the upline of *)
(* "/start <id>" and by every other handler with no upline                  *)

Uids == 1..NUsers
OldUsers == {1}

\* the upline handle_start parses: parts[1] if it is all digits, else None
Uplines == {<<>>} \cup {<<u>> : u \in 0..NUsers}

NewUserRow(up) ==
    [upline_user_id |-> up, credited_upline |-> FALSE, balance |-> 0, shared_count |-> 0]

\* locals of upsert_user and of its caller: bot_row_amount is
\* bot_row.get("affiliate_amount") of the webhook's bot_row, affiliate_amount
\* is the argument of that name (no caller passes it: it stays None)
NoRtx == [uid |-> 0, upline_id |-> <<>>, is_new |-> FALSE, credit |-> FALSE,
          bot_row_amount |-> <<>>, affiliate_amount |-> <<>>]

InitRef ==
    /\ users = [u \in Uids |-> IF u \in OldUsers THEN <<NewUserRow(<<>>)>> ELSE NULL]
    /\ rpc = [p \in Procs |-> "idle"]
    /\ rtx = [p \in Procs |-> NoRtx]
    /\ rlock = [u \in Uids |-> 0]
    /\ credits = [u \in Uids |-> 0]
    /\ nRefEvents = 0
    /\ affiliate_amount = NULL

IdleRef ==
    /\ users = [u \in Uids |-> NULL]
    /\ rpc = [p \in Procs |-> "idle"]
    /\ rtx = [p \in Procs |-> NoRtx]
    /\ rlock = [u \in Uids |-> 0]
    /\ credits = [u \in Uids |-> 0]
    /\ nRefEvents = 0
    /\ affiliate_amount = NULL

\* "if upline_id == uid: upline_id = None"
SelfCheck(uid, upline_id) == IF upline_id = <<uid>> THEN <<>> ELSE upline_id

\* an event of user uid arrives and its handler calls upsert_user
RefDeliver(p, uid, upline_id) ==
    /\ UNCHANGED NotRef
    /\ rpc[p] \in {"idle", "done"}
    /\ nRefEvents < MaxRefEvents
    /\ nRefEvents' = nRefEvents + 1
    /\ rtx' = [rtx EXCEPT ![p] = [NoRtx EXCEPT !.uid = uid,
                                               !.upline_id = SelfCheck(uid, upline_id),
                                               !.bot_row_amount = affiliate_amount]]
    /\ rpc' = [rpc EXCEPT ![p] = "insert"]
    /\ UNCHANGED <<users, rlock, credits, affiliate_amount>>

\* handler q has inserted the row of uid and not committed yet
HoldsInsert(q, uid) ==
    rpc[q] \in {"credit", "commit"} /\ rtx[q].uid = uid /\ rtx[q].is_new

RowcountAlways1(uid) == 1

\* res.rowcount of INSERT ... ON CONFLICT (bot_id, user_id) DO NOTHING
InsertRowcount(uid) == IF users[uid] = NULL THEN 1 ELSE 0

\* INSERT INTO users ... ON CONFLICT DO NOTHING: waits for a concurrent
\* insert of the same key to end; is_new = (res.rowcount == 1).  For a row
\* that exists, UPDATE users SET username..., which takes the row's lock
RefInsert(p) ==
    /\ UNCHANGED NotRef
    /\ rpc[p] = "insert"
    /\ LET uid == rtx[p].uid
           is_new == InsertRowcount(uid) = 1
       IN  /\ \A q \in Procs \ {p} : ~HoldsInsert(q, uid)
           /\ ~is_new => rlock[uid] = 0
           /\ rlock' = IF is_new THEN rlock ELSE [rlock EXCEPT ![uid] = p]
           /\ rtx' = [rtx EXCEPT ![p].is_new = is_new]
           /\ rpc' = [rpc EXCEPT ![p] = "credit"]
    /\ UNCHANGED <<users, credits, nRefEvents, affiliate_amount>>

UpdRowcount_Always1(up) == 1

\* upd.rowcount of "UPDATE users SET balance=balance+:a, ... WHERE
\* user_id=:up": 1 when the upline has a committed row
UpdRowcount(up) == IF Val(up) \in Uids /\ users[Val(up)] # NULL THEN 1 ELSE 0

\* "if is_new and upline_id": UPDATE users SET balance=balance+:a,
\* shared_count=shared_count+1 WHERE user_id=:up; upd.rowcount == 1 when the
\* upline has a committed row, and then credited_upline is set
RefCredit(p) ==
    /\ UNCHANGED NotRef
    /\ rpc[p] = "credit"
    /\ LET up == rtx[p].upline_id
       IN  IF rtx[p].is_new /\ up # <<>> /\ Val(up) # 0 /\ UpdRowcount(up) = 1
           THEN /\ rlock[Val(up)] = 0
                /\ rlock' = [rlock EXCEPT ![Val(up)] = p]
                /\ rtx' = [rtx EXCEPT ![p].credit = TRUE]
           ELSE UNCHANGED <<rlock, rtx>>
    /\ rpc' = [rpc EXCEPT ![p] = "commit"]
    /\ UNCHANGED <<users, credits, nRefEvents, affiliate_amount>>

\* "float(affiliate_amount if affiliate_amount is not None else
\* AFFILIATE_AMOUNT)"
CreditAmount(amount) == IF amount # NULL THEN Val(amount) ELSE AFFILIATE_AMOUNT

CommittedUsers_OverwriteUpline(p) ==
    LET uid == rtx[p].uid
        up == rtx[p].upline_id
    IN  [u \in Uids |->
            IF u = uid
            THEN <<[NewUserRow(up) EXCEPT !.credited_upline = rtx[p].credit]>>
            ELSE IF rtx[p].credit /\ u = Val(up) /\ users[u] # NULL
            THEN <<[Val(users[u]) EXCEPT !.balance = @ + CreditAmount(rtx[p].affiliate_amount),
                                         !.shared_count = @ + 1]>>
            ELSE users[u]]

CommittedUsers_NoCounter(p) ==
    LET uid == rtx[p].uid
        up == rtx[p].upline_id
    IN  [u \in Uids |->
            IF rtx[p].is_new /\ u = uid
            THEN <<[NewUserRow(up) EXCEPT !.credited_upline = rtx[p].credit]>>
            ELSE IF rtx[p].credit /\ u = Val(up) /\ users[u] # NULL
            THEN <<[Val(users[u]) EXCEPT !.balance = @ + CreditAmount(rtx[p].affiliate_amount)]>>
            ELSE users[u]]

\* the rows after the transaction of p commits
CommittedUsers(p) ==
    LET uid == rtx[p].uid
        up == rtx[p].upline_id
    IN  [u \in Uids |->
            IF rtx[p].is_new /\ u = uid
            THEN <<[NewUserRow(up) EXCEPT !.credited_upline = rtx[p].credit]>>
            ELSE IF rtx[p].credit /\ u = Val(up) /\ users[u] # NULL
            THEN <<[Val(users[u]) EXCEPT !.balance = @ + CreditAmount(rtx[p].affiliate_amount),
                                         !.shared_count = @ + 1]>>
            ELSE users[u]]

\* the block of engine.begin() ends: commit, locks released
RefCommit(p) ==
    /\ UNCHANGED NotRef
    /\ rpc[p] = "commit"
    /\ users' = CommittedUsers(p)
    /\ credits' = IF rtx[p].credit
                  THEN [credits EXCEPT ![rtx[p].uid] = @ + 1]
                  ELSE credits
    /\ rlock' = [u \in Uids |-> IF rlock[u] = p THEN 0 ELSE rlock[u]]
    /\ rpc' = [rpc EXCEPT ![p] = "done"]
    /\ UNCHANGED <<rtx, nRefEvents, affiliate_amount>>

\* the amounts an admin gives to /setshareamt
ShareAmts == 0..MaxShareAmt

\* "/setshareamt <amt>" of an admin: "if amt <= 0: raise ValueError", else
\* "UPDATE bots SET affiliate_amount=:a WHERE id=:i"
RefSetShareAmt(amt) ==
    /\ UNCHANGED NotRef
    /\ nRefEvents < MaxRefEvents
    /\ nRefEvents' = nRefEvents + 1
    /\ affiliate_amount' = IF amt <= 0 THEN affiliate_amount ELSE <<amt>>
    /\ UNCHANGED <<users, rpc, rtx, rlock, credits>>

NextRef ==
    \/ \E amt \in ShareAmts : RefSetShareAmt(amt)
    \/ \E p \in Procs : \E uid \in Uids : \E up \in Uplines : RefDeliver(p, uid, up)
    \/ \E p \in Procs : RefInsert(p)
    \/ \E p \in Procs : RefCredit(p)
    \/ \E p \in Procs : RefCommit(p)

-----------------------------------------------------------------------------
(* Daily scan quota: get_scan_limit_for_user and scan_daily_touch_or_block *)
(* for one (tenant, user, day)                                              *)

Limits == {<<>>} \cup {<<l>> : l \in 0..MaxLimit}

NoQtx == [allowed |-> FALSE, used |-> 0, lim |-> <<>>, count |-> <<>>]

InitQuota ==
    /\ scan_limit_per_day \in Limits
    /\ limit_override \in Limits
    /\ usage = NULL
    /\ qpc = [p \in Procs |-> "idle"]
    /\ qtx = [p \in Procs |-> NoQtx]
    /\ qlock = 0
    /\ admitted = 0
    /\ nScanEvents = 0
    /\ override_deleted = FALSE

IdleQuota ==
    /\ scan_limit_per_day = NULL
    /\ limit_override = NULL
    /\ usage = NULL
    /\ qpc = [p \in Procs |-> "idle"]
    /\ qtx = [p \in Procs |-> NoQtx]
    /\ qlock = 0
    /\ admitted = 0
    /\ nScanEvents = 0
    /\ override_deleted = FALSE

\* get_scan_limit_for_user: the override row if there is one, else the
\* tenant's scan_limit_per_day
get_scan_limit_for_user_DefaultFirst ==
    IF scan_limit_per_day # NULL THEN scan_limit_per_day ELSE limit_override

get_scan_limit_for_user ==
    IF limit_override # NULL THEN limit_override ELSE scan_limit_per_day

\* a button press reaches the call, inside a transaction of its own
QuotaDeliver(p) ==
    /\ UNCHANGED NotQuota
    /\ qpc[p] \in {"idle", "done"}
    /\ nScanEvents < MaxScanEvents
    /\ nScanEvents' = nScanEvents + 1
    /\ qtx' = [qtx EXCEPT ![p] = NoQtx]
    /\ qpc' = [qpc EXCEPT ![p] = "touch"]
    /\ UNCHANGED <<scan_limit_per_day, limit_override, usage, qlock, admitted,
                   override_deleted>>

UnderLimit_OffByOne(count, lim) == count <= lim

\* "WHERE scan_daily_usage.count < :lim" of the upsert
UnderLimit(count, lim) == count < lim

Unlimited_OnlyNone(lim) == lim = NULL

\* "if lim is None: return True, 0, None" and
\* "if lim_i <= 0: return True, 0, lim_i"
Unlimited(lim) == lim = NULL \/ Val(lim) <= 0

\* scan_daily_touch_or_block: no limit or a limit <= 0 admits without
\* touching the counter; otherwise INSERT ... ON CONFLICT DO UPDATE SET
\* count = count + 1 WHERE count < :lim RETURNING count, one statement that
\* waits for the row's lock and acts on the newest committed row
QuotaTouch(p) ==
    /\ UNCHANGED NotQuota
    /\ qpc[p] = "touch"
    /\ LET lim == get_scan_limit_for_user
       IN  IF Unlimited(lim)
           THEN /\ qtx' = [qtx EXCEPT ![p] = [NoQtx EXCEPT !.allowed = TRUE, !.lim = lim]]
                /\ UNCHANGED <<qlock, admitted>>
           ELSE /\ qlock = 0
                /\ qlock' = p
                /\ IF usage = NULL
                   THEN /\ qtx' = [qtx EXCEPT ![p] = [allowed |-> TRUE, used |-> 1,
                                                      lim |-> lim, count |-> <<1>>]]
                        /\ admitted' = admitted + 1
                   ELSE IF UnderLimit(Val(usage), Val(lim))
                   THEN /\ qtx' = [qtx EXCEPT ![p] = [allowed |-> TRUE,
                                                      used |-> Val(usage) + 1,
                                                      lim |-> lim,
                                                      count |-> <<Val(usage) + 1>>]]
                        /\ admitted' = admitted + 1
                   ELSE /\ qtx' = [qtx EXCEPT ![p] =
                                     [allowed |-> FALSE,
                                      used |-> IF Val(usage) # 0 THEN Val(usage)
                                                                 ELSE Val(lim),
                                      lim |-> lim, count |-> <<>>]]
                        /\ UNCHANGED admitted
    /\ qpc' = [qpc EXCEPT ![p] = "commit"]
    /\ UNCHANGED <<scan_limit_per_day, limit_override, usage, nScanEvents,
                   override_deleted>>

\* the caller's engine.begin() block ends: commit
QuotaCommit(p) ==
    /\ UNCHANGED NotQuota
    /\ qpc[p] = "commit"
    /\ usage' = IF qtx[p].count # <<>> THEN qtx[p].count ELSE usage
    /\ qlock' = IF qlock = p THEN 0 ELSE qlock
    /\ qpc' = [qpc EXCEPT ![p] = "done"]
    /\ UNCHANGED <<scan_limit_per_day, limit_override, qtx, admitted, nScanEvents,
                   override_deleted>>

\* /setscanlimit <n> @user: the upsert of the user's override row
QuotaSetOverride(l) ==
    /\ UNCHANGED NotQuota
    /\ nScanEvents < MaxScanEvents
    /\ nScanEvents' = nScanEvents + 1
    /\ limit_override' = <<l>>
    /\ UNCHANGED <<scan_limit_per_day, usage, qpc, qtx, qlock, admitted,
                   override_deleted>>

\* /setscanlimit del @user: DELETE FROM scan_limit_overrides
QuotaDelOverride ==
    /\ UNCHANGED NotQuota
    /\ nScanEvents < MaxScanEvents
    /\ nScanEvents' = nScanEvents + 1
    /\ limit_override' = NULL
    /\ override_deleted' = (override_deleted \/ limit_override # NULL)
    /\ UNCHANGED <<scan_limit_per_day, usage, qpc, qtx, qlock, admitted>>

\* /setscanlimit <n>: UPDATE bots SET scan_limit_per_day
QuotaSetGlobal(l) ==
    /\ UNCHANGED NotQuota
    /\ nScanEvents < MaxScanEvents
    /\ nScanEvents' = nScanEvents + 1
    /\ scan_limit_per_day' = <<l>>
    /\ UNCHANGED <<limit_override, usage, qpc, qtx, qlock, admitted,
                   override_deleted>>

NextQuota ==
    \/ \E p \in Procs : QuotaDeliver(p)
    \/ \E p \in Procs : QuotaTouch(p)
    \/ \E p \in Procs : QuotaCommit(p)

\* the calls, and an admin's /setscanlimit commands between them
NextLimit ==
    \/ NextQuota
    \/ \E l \in 0..MaxLimit : QuotaSetOverride(l)
    \/ QuotaDelOverride
    \/ \E l \in 0..MaxLimit : QuotaSetGlobal(l)

-----------------------------------------------------------------------------
(* Scanner cooldown: scanner_check_and_touch_cooldown and its caller, for  *)
(* one (tenant, user, provider)                                             *)

\* the caller passes cooldown_seconds=5, which is also the default
cooldown_seconds == 5

\* time that passes between the starts of two checks
Delays == {1, TicksPerSecond, cooldown_seconds * TicksPerSecond - 1,
           cooldown_seconds * TicksPerSecond}

NoCtx == [now |-> 0, remaining |-> 0, last_at |-> <<>>]

InitCool ==
    /\ clock = 0
    /\ last_at = NULL
    /\ cpc = [p \in Procs |-> "idle"]
    /\ ctx = [p \in Procs |-> NoCtx]
    /\ clock_lock = 0
    /\ admits = <<>>
    /\ nCoolEvents = 0

IdleCool == InitCool

\* now = datetime.now(timezone.utc) at the start of the call
CoolDeliver(p) ==
    /\ UNCHANGED NotCool
    /\ cpc[p] \in {"idle", "done"}
    /\ nCoolEvents < MaxCoolEvents
    /\ nCoolEvents' = nCoolEvents + 1
    /\ \E d \in Delays :
          /\ clock' = clock + d
          /\ ctx' = [ctx EXCEPT ![p] = [NoCtx EXCEPT !.now = clock + d]]
    /\ cpc' = [cpc EXCEPT ![p] = "select"]
    /\ UNCHANGED <<last_at, clock_lock, admits>>

\* int(cooldown_seconds - elapsed + 0.999), elapsed in ticks
Remaining(elapsed) ==
    (1000 * (cooldown_seconds * TicksPerSecond - elapsed) + 999 * TicksPerSecond)
        \div (1000 * TicksPerSecond)

\* SELECT last_at (the committed row, no lock); inside the window the call
\* returns the remaining seconds, and the caller shows the toast only when
\* remaining > 0
CoolSelect(p) ==
    /\ UNCHANGED NotCool
    /\ cpc[p] = "select"
    /\ IF last_at # NULL /\ ctx[p].now - Val(last_at) < cooldown_seconds * TicksPerSecond
       THEN LET remaining == Remaining(ctx[p].now - Val(last_at))
            IN  /\ ctx' = [ctx EXCEPT ![p].remaining = remaining]
                /\ admits' = IF remaining > 0 THEN admits
                                              ELSE Append(admits, ctx[p].now)
                /\ cpc' = [cpc EXCEPT ![p] = "commit"]
       ELSE /\ cpc' = [cpc EXCEPT ![p] = "upsert"]
            /\ UNCHANGED <<ctx, admits>>
    /\ UNCHANGED <<clock, last_at, clock_lock, nCoolEvents>>

\* INSERT ... ON CONFLICT DO UPDATE SET last_at = EXCLUDED.last_at: waits for
\* the row, then writes this call's now; return 0
CoolUpsert(p) ==
    /\ UNCHANGED NotCool
    /\ cpc[p] = "upsert"
    /\ clock_lock = 0
    /\ clock_lock' = p
    /\ ctx' = [ctx EXCEPT ![p].last_at = <<ctx[p].now>>, ![p].remaining = 0]
    /\ admits' = Append(admits, ctx[p].now)
    /\ cpc' = [cpc EXCEPT ![p] = "commit"]
    /\ UNCHANGED <<clock, last_at, nCoolEvents>>

\* the caller's engine.begin() block ends: commit
CoolCommit(p) ==
    /\ UNCHANGED NotCool
    /\ cpc[p] = "commit"
    /\ last_at' = IF ctx[p].last_at # <<>> THEN ctx[p].last_at ELSE last_at
    /\ clock_lock' = IF clock_lock = p THEN 0 ELSE clock_lock
    /\ cpc' = [cpc EXCEPT ![p] = "done"]
    /\ UNCHANGED <<clock, ctx, admits, nCoolEvents>>

NextCool ==
    \/ \E p \in Procs : CoolDeliver(p)
    \/ \E p \in Procs : CoolSelect(p)
    \/ \E p \in Procs : CoolUpsert(p)
    \/ \E p \in Procs : CoolCommit(p)

\* a check starts only when no other check is in progress
CoolDeliverSeq(p) ==
    /\ \A q \in Procs : cpc[q] \in {"idle", "done"}
    /\ CoolDeliver(p)

NextCoolSeq ==
    \/ \E p \in Procs : CoolDeliverSeq(p)
    \/ \E p \in Procs : CoolSelect(p)
    \/ \E p \in Procs : CoolUpsert(p)
    \/ \E p \in Procs : CoolCommit(p)

-----------------------------------------------------------------------------
(* Withdrawal request creation: the message routing of telegram_webhook,   *)
(* handle_withdraw_request and process_withdraw, for one user of a tenant   *)

MIN_WITHDRAW_DEFAULT == 30

Amounts == (0..MaxReqAmt) \cup {MIN_WITHDRAW_DEFAULT, MIN_WITHDRAW_DEFAULT + 1}

\* a message text, as its tokens: a word or a number
Word(s) == [w |-> s, n |-> 0]
Num(a) == [w |-> "", n |-> a]
Tokens == {Word(s) : s \in {"/withdraw", "bank"}} \cup {Num(a) : a \in Amounts}
Texts == {<<t>> : t \in Tokens}
            \cup {<<Word("bank"), Num(a)>> : a \in Amounts}
            \cup {<<Num(a), Num(MIN_WITHDRAW_DEFAULT + 1)>> : a \in Amounts}

\* /setminwithdraw stores only amounts above 0
MinWithdraws == {<<>>} \cup {<<m>> : m \in 1..MaxReqAmt}

NoWtx == [text_msg |-> <<>>, bal0 |-> 0]

InitReq ==
    /\ min_withdraw_amount \in MinWithdraws
    /\ ubalance \in Amounts
    /\ user_state = NULL
    /\ withdrawals = <<>>
    /\ outbox = <<>>
    /\ wpc = [p \in Procs |-> "idle"]
    /\ wtx = [p \in Procs |-> NoWtx]
    /\ nReqEvents = 0

IdleReq ==
    /\ min_withdraw_amount = NULL
    /\ ubalance = 0
    /\ user_state = NULL
    /\ withdrawals = <<>>
    /\ outbox = <<>>
    /\ wpc = [p \in Procs |-> "idle"]
    /\ wtx = [p \in Procs |-> NoWtx]
    /\ nReqEvents = 0

get_bot_min_withdraw ==
    IF min_withdraw_amount = NULL THEN MIN_WITHDRAW_DEFAULT
                                  ELSE Val(min_withdraw_amount)

RECURSIVE FirstNumber(_)
\* re.search(r"(\d+(?:\.\d+)?)", text_msg): the first number of the text
FirstNumber(t) ==
    IF t = <<>> THEN <<>>
    ELSE IF Head(t).w = "" THEN <<Head(t).n>>
    ELSE FirstNumber(Tail(t))

build_withdraw_insufficient_msg(min_wd, bal) ==
    [kind |-> "insufficient", min_wd |-> min_wd, bal |-> bal]

\* telegram_webhook: get_user_state, then the state dispatch before the
\* commands
ReqDeliver(p, text_msg) ==
    /\ UNCHANGED NotReq
    /\ wpc[p] \in {"idle", "done"}
    /\ nReqEvents < MaxReqEvents
    /\ nReqEvents' = nReqEvents + 1
    /\ wtx' = [wtx EXCEPT ![p] = [NoWtx EXCEPT !.text_msg = text_msg]]
    /\ wpc' = [wpc EXCEPT ![p] =
                 IF user_state = <<"await_withdraw">> THEN "clear"
                 ELSE IF Head(text_msg) = Word("/withdraw") THEN "set_state"
                 ELSE "done"]
    /\ UNCHANGED <<min_withdraw_amount, ubalance, user_state, withdrawals, outbox>>

\* handle_withdraw_request: set_user_state and the prompt
ReqSetState(p) ==
    /\ UNCHANGED NotReq
    /\ wpc[p] = "set_state"
    /\ user_state' = <<"await_withdraw">>
    /\ outbox' = Append(outbox, [kind |-> "prompt", min_wd |-> 0, bal |-> 0])
    /\ wpc' = [wpc EXCEPT ![p] = "done"]
    /\ wtx' = [wtx EXCEPT ![p] = NoWtx]
    /\ UNCHANGED <<min_withdraw_amount, ubalance, withdrawals, nReqEvents>>

\* process_withdraw: clear_user_state
ReqClear(p) ==
    /\ UNCHANGED NotReq
    /\ wpc[p] = "clear"
    /\ user_state' = NULL
    /\ wpc' = [wpc EXCEPT ![p] = "read"]
    /\ UNCHANGED <<min_withdraw_amount, ubalance, withdrawals, outbox, wtx, nReqEvents>>

BelowMinimum_Never(bal0, min_wd) == FALSE

\* "if bal0 < float(min_wd)"
BelowMinimum(bal0, min_wd) == bal0 < min_wd

ExceedsBalance_Never(req_amt, bal0) == FALSE

\* "if req_amt is not None and req_amt > bal0"
ExceedsBalance(req_amt, bal0) == req_amt # <<>> /\ Val(req_amt) > bal0

\* process_withdraw: SELECT balance, the parse of the amount and the two
\* checks, each of which sends the insufficient message and returns
ReqRead(p) ==
    /\ UNCHANGED NotReq
    /\ wpc[p] = "read"
    /\ LET min_wd == get_bot_min_withdraw
           bal0 == ubalance
           req_amt == FirstNumber(wtx[p].text_msg)
       IN  IF BelowMinimum(bal0, min_wd) \/ ExceedsBalance(req_amt, bal0)
           THEN /\ outbox' = Append(outbox, build_withdraw_insufficient_msg(min_wd, bal0))
                /\ wpc' = [wpc EXCEPT ![p] = "done"]
                /\ wtx' = [wtx EXCEPT ![p] = NoWtx]
           ELSE /\ wpc' = [wpc EXCEPT ![p] = "insert"]
                /\ wtx' = [wtx EXCEPT ![p].bal0 = bal0]
                /\ UNCHANGED outbox
    /\ UNCHANGED <<min_withdraw_amount, ubalance, user_state, withdrawals, nReqEvents>>

\* process_withdraw: INSERT INTO withdrawals (status defaults to PENDING),
\* then the confirmation
ReqInsert(p) ==
    /\ UNCHANGED NotReq
    /\ wpc[p] = "insert"
    /\ withdrawals' = Append(withdrawals, [request_text |-> wtx[p].text_msg,
                                           status |-> "PENDING"])
    /\ outbox' = Append(outbox, [kind |-> "sent", min_wd |-> 0, bal |-> 0])
    /\ wpc' = [wpc EXCEPT ![p] = "done"]
    /\ wtx' = [wtx EXCEPT ![p] = NoWtx]
    /\ UNCHANGED <<min_withdraw_amount, ubalance, user_state, nReqEvents>>

\* upsert_user in another request credits this user as an upline
ReqCredit ==
    /\ UNCHANGED NotReq
    /\ ubalance + AFFILIATE_AMOUNT \in Amounts
    /\ ubalance' = ubalance + AFFILIATE_AMOUNT
    /\ UNCHANGED <<min_withdraw_amount, user_state, withdrawals, outbox, wpc, wtx,
                   nReqEvents>>

NextReq ==
    \/ \E p \in Procs, text_msg \in Texts : ReqDeliver(p, text_msg)
    \/ \E p \in Procs : ReqSetState(p)
    \/ \E p \in Procs : ReqClear(p)
    \/ \E p \in Procs : ReqRead(p)
    \/ \E p \in Procs : ReqInsert(p)
    \/ ReqCredit

-----------------------------------------------------------------------------
(* Session states: the text message routing of telegram_webhook,           *)
(* set_user_state / get_user_state / clear_user_state and the two state     *)
(* handlers, for one user of a tenant                                       *)

\* text messages, as tokens; "123456:token" matches the bot token pattern
SessTexts == {<<Word(w)>> : w \in {"/start", "/withdraw", "/addbot", "/myid",
                                   "bank", "123456:token"}}
                \cup {<<Word("/start"), Num(1)>>}

\* text_msg.startswith(cmd)
StartsWith(text_msg, cmd) == Head(text_msg) = Word(cmd)

\* re.match(r"^\d+:[A-Za-z0-9_-]{20,}$", tok)
IsBotToken(text_msg) == text_msg = <<Word("123456:token")>>

\* json.dumps(payload or {}): None and {} both give "{}"
Dumps(payload) == IF payload \in {"None", "{}"} THEN "{}" ELSE payload

NoStx == [text_msg |-> <<>>, state |-> <<>>, handler |-> "none",
          cleared |-> FALSE, write |-> <<>>, result |-> "none"]

InitSess ==
    /\ is_admin \in BOOLEAN
    /\ user_states = {}
    /\ spc = [p \in Procs |-> "idle"]
    /\ stx = [p \in Procs |-> NoStx]
    /\ last_write = NULL
    /\ nSessEvents = 0

IdleSess ==
    /\ is_admin = FALSE
    /\ user_states = {}
    /\ spc = [p \in Procs |-> "idle"]
    /\ stx = [p \in Procs |-> NoStx]
    /\ last_write = NULL
    /\ nSessEvents = 0

\* the webhook receives a text message of the user
SessDeliver(p, text_msg) ==
    /\ UNCHANGED NotSess
    /\ spc[p] \in {"idle", "done"}
    /\ nSessEvents < MaxSessEvents
    /\ nSessEvents' = nSessEvents + 1
    /\ stx' = [stx EXCEPT ![p] = [NoStx EXCEPT !.text_msg = text_msg]]
    /\ spc' = [spc EXCEPT ![p] = "route"]
    /\ UNCHANGED <<is_admin, user_states, last_write>>

\* "if text_msg and text_msg.startswith('/start'): handle_start(...)",
\* before upsert_user and before the state is read
SessRoute(p) ==
    /\ UNCHANGED NotSess
    /\ spc[p] = "route"
    /\ IF StartsWith(stx[p].text_msg, "/start")
       THEN /\ stx' = [stx EXCEPT ![p].handler = "handle_start"]
            /\ spc' = [spc EXCEPT ![p] = "done"]
       ELSE /\ spc' = [spc EXCEPT ![p] = "get_state"]
            /\ UNCHANGED stx
    /\ UNCHANGED <<is_admin, user_states, last_write, nSessEvents>>

\* the row of user_states the router reads
get_user_state ==
    IF user_states = {} THEN <<>> ELSE <<CHOOSE r \in user_states : TRUE>>

\* state = get_user_state(bot_id, uid), the state dispatch and, with no
\* state for this text, the commands
SessGetState(p) ==
    /\ UNCHANGED NotSess
    /\ spc[p] = "get_state"
    /\ LET state == get_user_state
           text_msg == stx[p].text_msg
           go(handler, label, write) ==
               /\ stx' = [stx EXCEPT ![p].state = state, ![p].handler = handler,
                                     ![p].write = write]
               /\ spc' = [spc EXCEPT ![p] = label]
       IN  IF state # <<>> /\ Val(state).state = "await_withdraw"
           THEN go("process_withdraw", "clear", <<>>)
           ELSE IF state # <<>> /\ Val(state).state = "await_addbot_token"
           THEN IF ~is_admin
                THEN go("clear_user_state", "clear", <<>>)
                ELSE go("handle_addbot_receive_token", "addbot", <<>>)
           ELSE IF StartsWith(text_msg, "/withdraw")
           THEN go("handle_withdraw_request", "set_state",
                   <<[state |-> "await_withdraw", payload |-> "None"]>>)
           ELSE IF StartsWith(text_msg, "/addbot") /\ is_admin
           THEN go("handle_addbot_start", "set_state",
                   <<[state |-> "await_addbot_token", payload |-> "{}"]>>)
           ELSE go("commands", "done", <<>>)
    /\ UNCHANGED <<is_admin, user_states, last_write, nSessEvents>>

Upsert_Append(rows, row) == rows \cup {row}

\* INSERT INTO user_states ... ON CONFLICT (bot_id, user_id) DO UPDATE SET
\* state=excluded.state, payload=excluded.payload: the one row of the key
Upsert(rows, row) == {row}

\* set_user_state(bot_id, uid, state, payload), a transaction of one
\* statement
SessSetState(p) ==
    /\ UNCHANGED NotSess
    /\ spc[p] = "set_state"
    /\ LET w == Val(stx[p].write)
       IN  /\ user_states' = Upsert(user_states,
                                    [state |-> w.state, payload |-> Dumps(w.payload)])
           /\ last_write' = <<[state |-> w.state, payload |-> "{}"]>>
    /\ spc' = [spc EXCEPT ![p] = "done"]
    /\ UNCHANGED <<is_admin, stx, nSessEvents>>

\* clear_user_state(bot_id, uid): the first statement of process_withdraw,
\* and the router's own call for a user who is no admin
SessClear(p) ==
    /\ UNCHANGED NotSess
    /\ spc[p] = "clear"
    /\ user_states' = {}
    /\ last_write' = NULL
    /\ stx' = [stx EXCEPT ![p].cleared = TRUE]
    /\ spc' = [spc EXCEPT ![p] = "done"]
    /\ UNCHANGED <<is_admin, nSessEvents>>

\* what the platform and the bots table answer for a well-formed token
TokenResults == {"exists", "invalid", "collision", "ok"}

\* handle_addbot_receive_token: a malformed token, a token getMe rejects
\* and a failed insert return at once; a token that is already stored and a
\* stored new bot end with clear_user_state
SessAddbot(p) ==
    /\ UNCHANGED NotSess
    /\ spc[p] = "addbot"
    /\ \E res \in TokenResults :
          LET result == IF IsBotToken(stx[p].text_msg) THEN res ELSE "malformed"
          IN  IF result \in {"exists", "ok"}
              THEN /\ user_states' = {}
                   /\ last_write' = NULL
                   /\ stx' = [stx EXCEPT ![p].cleared = TRUE, ![p].result = result]
              ELSE /\ stx' = [stx EXCEPT ![p].result = result]
                   /\ UNCHANGED <<user_states, last_write>>
    /\ spc' = [spc EXCEPT ![p] = "done"]
    /\ UNCHANGED <<is_admin, nSessEvents>>

NextSess ==
    \/ \E p \in Procs, text_msg \in SessTexts : SessDeliver(p, text_msg)
    \/ \E p \in Procs : SessRoute(p)
    \/ \E p \in Procs : SessGetState(p)
    \/ \E p \in Procs : SessSetState(p)
    \/ \E p \in Procs : SessClear(p)
    \/ \E p \in Procs : SessAddbot(p)

-----------------------------------------------------------------------------
(* Premium gating: ensure_access in front of start content, Action content
   and scan results; the adm: buttons and the /approve and /reject replies
   that set users.is_premium; the st:manual setting; handle_contact.
   The events are about one user of one tenant. *)

\* how a piece of content is asked for: /start, a dynamic command, a cb:
\* button without delay, a scanner button, a cb: button with delay served by
\* the threading.Timer fallback, a cb: button with delay served by /task/action
ContentKinds == {"start", "command", "button", "scan", "timer", "task"}

BotRows == [manual_approval : BOOLEAN, lock_bot : BOOLEAN]

NoPtx == [kind     |-> "none",
          bot_row  |-> [manual_approval |-> FALSE, lock_bot |-> FALSE],
          user_row |-> [is_verified |-> FALSE, is_premium |-> FALSE],
          fired    |-> FALSE]

\* the bots row as a SELECT reads it now
get_bot == [manual_approval |-> manual_approval, lock_bot |-> lock_bot]

\* the users row as a SELECT reads it now
get_user_row == [is_verified |-> is_verified, is_premium |-> is_premium]

\* "if not bot_row.get('lock_bot'): return True;
\*  if user_row and user_row.get('is_verified'): return True"
ensure_contact_verified(bot_row, user_row) ==
    ~bot_row.lock_bot \/ user_row.is_verified

\* "if not bot_row.get('manual_approval'): return True;
\*  if require_admin(bot_row, int(uid)): return True;
\*  if user_row and user_row.get('is_premium'): return True"
ensure_premium_if_needed(bot_row, user_row) ==
    \/ ~bot_row.manual_approval
    \/ target_admin
    \/ user_row.is_premium

\* ensure_joined asks the platform for the membership: joined is its answer
ensure_access(bot_row, user_row, joined) ==
    /\ joined
    /\ ensure_contact_verified(bot_row, user_row)
    /\ ensure_premium_if_needed(bot_row, user_row)

\* the message the first failing gate sends instead of the content
GateMessage(bot_row, user_row, joined) ==
    IF ~joined THEN "join_message"
    ELSE IF ~ensure_contact_verified(bot_row, user_row) THEN "contact_message"
    ELSE "pending_message"

InitPrem ==
    /\ manual_approval \in BOOLEAN
    /\ lock_bot \in BOOLEAN
    /\ target_admin \in BOOLEAN
    /\ is_verified = FALSE
    /\ is_premium = FALSE
    /\ ppc = [p \in Procs |-> "idle"]
    /\ ptx = [p \in Procs |-> NoPtx]
    /\ received = {}
    /\ nPremEvents = 0

IdlePrem ==
    /\ manual_approval = FALSE
    /\ lock_bot = FALSE
    /\ target_admin = FALSE
    /\ is_verified = FALSE
    /\ is_premium = FALSE
    /\ ppc = [p \in Procs |-> "idle"]
    /\ ptx = [p \in Procs |-> NoPtx]
    /\ received = {}
    /\ nPremEvents = 0

\* an update of the user arrives: "bot_row = get_bot_by_secret(secret)" is
\* read once, at the top of the webhook
PremDeliver(p, kind) ==
    /\ UNCHANGED NotPrem
    /\ ppc[p] \in {"idle", "done"}
    /\ nPremEvents < MaxPremEvents
    /\ nPremEvents' = nPremEvents + 1
    /\ ptx' = [ptx EXCEPT ![p] = [NoPtx EXCEPT !.kind = kind, !.bot_row = get_bot]]
    /\ ppc' = [ppc EXCEPT ![p] = IF kind = "contact" THEN "verify" ELSE "read"]
    /\ UNCHANGED <<manual_approval, lock_bot, target_admin, is_verified,
                   is_premium, received>>

\* upsert_user / get_user_row: the handler reads the user's row (a dynamic
\* command with delay_seconds sleeps before this read)
PremReadRow(p) ==
    /\ UNCHANGED NotPrem
    /\ ppc[p] = "read"
    /\ ptx' = [ptx EXCEPT ![p].user_row = get_user_row]
    /\ ppc' = [ppc EXCEPT ![p] = "gate"]
    /\ UNCHANGED <<manual_approval, lock_bot, target_admin, is_verified,
                   is_premium, received, nPremEvents>>

\* "if not ensure_access(bot_row, chat_id, uid, user_row): return", with the
\* bot_row and the user row the handler holds.  A button with delay that
\* passes goes on to its timer or its task; everything else goes on to send.
PremGate(p) ==
    /\ UNCHANGED NotPrem
    /\ ppc[p] = "gate"
    /\ \E joined \in BOOLEAN :
          IF ensure_access(ptx[p].bot_row, ptx[p].user_row, joined)
          THEN /\ ppc' = [ppc EXCEPT ![p] =
                     IF ptx[p].kind \in {"timer", "task"} /\ ~ptx[p].fired
                     THEN ptx[p].kind ELSE "send"]
               /\ UNCHANGED received
          ELSE /\ received' = received \cup
                     {GateMessage(ptx[p].bot_row, ptx[p].user_row, joined)}
               /\ ppc' = [ppc EXCEPT ![p] = "done"]
    /\ UNCHANGED <<manual_approval, lock_bot, target_admin, is_verified,
                   is_premium, ptx, nPremEvents>>

\* threading.Timer(delay, _later): "u2 = get_user_row(bot_id, uid)", then
\* ensure_access with the bot_row of the webhook that started the timer
PremLater(p) ==
    /\ UNCHANGED NotPrem
    /\ ppc[p] = "timer"
    /\ ptx' = [ptx EXCEPT ![p].user_row = get_user_row, ![p].fired = TRUE]
    /\ ppc' = [ppc EXCEPT ![p] = "gate"]
    /\ UNCHANGED <<manual_approval, lock_bot, target_admin, is_verified,
                   is_premium, received, nPremEvents>>

\* task_action: "bot_row = get_bot_by_id(str(bot_id))",
\* "urow = get_user_row(str(bot_id), int(user_id))", then ensure_access
PremTask(p) ==
    /\ UNCHANGED NotPrem
    /\ ppc[p] = "task"
    /\ ptx' = [ptx EXCEPT ![p].bot_row = get_bot, ![p].user_row = get_user_row,
                          ![p].fired = TRUE]
    /\ ppc' = [ppc EXCEPT ![p] = "gate"]
    /\ UNCHANGED <<manual_approval, lock_bot, target_admin, is_verified,
                   is_premium, received, nPremEvents>>

\* the content goes out: the start message, the Action's text or media, the
\* scan result after animate_scanning_progress
PremSend(p) ==
    /\ UNCHANGED NotPrem
    /\ ppc[p] = "send"
    /\ received' = received \cup {ptx[p].kind}
    /\ ppc' = [ppc EXCEPT ![p] = "done"]
    /\ UNCHANGED <<manual_approval, lock_bot, target_admin, is_verified,
                   is_premium, ptx, nPremEvents>>

\* handle_contact: "UPDATE users SET phone=:p, is_verified=TRUE", then under
\* manual approval "SET is_premium=COALESCE(is_premium, FALSE)" and the
\* pending message, otherwise the "Contact diterima" message
PremVerify(p) ==
    /\ UNCHANGED NotPrem
    /\ ppc[p] = "verify"
    /\ is_verified' = TRUE
    /\ received' = received \cup
          {IF ptx[p].bot_row.manual_approval THEN "pending_message"
                                             ELSE "contact_accepted"}
    /\ ppc' = [ppc EXCEPT ![p] = "contact_read"]
    /\ UNCHANGED <<manual_approval, lock_bot, target_admin, is_premium, ptx,
                   nPremEvents>>

\* handle_contact: "user_row2 = get_user_row(...);
\*  if bot_row.get('manual_approval') and not user_row2.get('is_premium'):
\*  return", otherwise handle_start
PremContactRead(p) ==
    /\ UNCHANGED NotPrem
    /\ ppc[p] = "contact_read"
    /\ IF ptx[p].bot_row.manual_approval /\ ~get_user_row.is_premium
       THEN /\ ppc' = [ppc EXCEPT ![p] = "done"]
            /\ UNCHANGED ptx
       ELSE /\ ppc' = [ppc EXCEPT ![p] = "read"]
            /\ ptx' = [ptx EXCEPT ![p].kind = "start"]
    /\ UNCHANGED <<manual_approval, lock_bot, target_admin, is_verified,
                   is_premium, received, nPremEvents>>

\* an admin presses adm:ap (is_app) or adm:rj on the user's premium request:
\* "if require_admin(bot_row, int(target_uid)): ... return", then
\* "UPDATE users SET is_premium=TRUE" or "=FALSE" and the message to the user
PremButton(is_app) ==
    /\ UNCHANGED NotPrem
    /\ nPremEvents < MaxPremEvents
    /\ nPremEvents' = nPremEvents + 1
    /\ IF target_admin
       THEN UNCHANGED <<is_premium, received>>
       ELSE /\ is_premium' = is_app
            /\ received' = received \cup
                  {IF is_app THEN "verified_message" ELSE "rejected_message"}
    /\ UNCHANGED <<manual_approval, lock_bot, target_admin, is_verified, ppc,
                   ptx>>

\* an admin replies /approve (is_app) or /reject to a message; uid_match
\* tells whether its text holds "UID: <code>uid</code>" of the user:
\* "if uid_match and bot_row.get('manual_approval'):" then
\* "UPDATE users SET is_premium=TRUE" or "=FALSE" and the message to the
\* user; otherwise the reply is taken as a withdrawal decision
PremReply(is_app, uid_match) ==
    /\ UNCHANGED NotPrem
    /\ nPremEvents < MaxPremEvents
    /\ nPremEvents' = nPremEvents + 1
    /\ IF uid_match /\ get_bot.manual_approval
       THEN /\ is_premium' = is_app
            /\ received' = received \cup
                  {IF is_app THEN "verified_message" ELSE "rejected_message"}
       ELSE UNCHANGED <<is_premium, received>>
    /\ UNCHANGED <<manual_approval, lock_bot, target_admin, is_verified, ppc,
                   ptx>>

\* an admin presses st:manual:on or st:manual:off:
\* "UPDATE bots SET manual_approval=:v WHERE id=:i"
PremSetManual(val) ==
    /\ UNCHANGED NotPrem
    /\ nPremEvents < MaxPremEvents
    /\ nPremEvents' = nPremEvents + 1
    /\ manual_approval' = val
    /\ UNCHANGED <<lock_bot, target_admin, is_verified, is_premium, ppc, ptx,
                   received>>

NextPrem ==
    \/ \E p \in Procs, kind \in ContentKinds \cup {"contact"} : PremDeliver(p, kind)
    \/ \E p \in Procs : PremReadRow(p)
    \/ \E p \in Procs : PremGate(p)
    \/ \E p \in Procs : PremLater(p)
    \/ \E p \in Procs : PremTask(p)
    \/ \E p \in Procs : PremSend(p)
    \/ \E p \in Procs : PremVerify(p)
    \/ \E p \in Procs : PremContactRead(p)
    \/ \E is_app \in BOOLEAN : PremButton(is_app)
    \/ \E is_app \in BOOLEAN, uid_match \in BOOLEAN : PremReply(is_app, uid_match)
    \/ \E val \in BOOLEAN : PremSetManual(val)

-----------------------------------------------------------------------------
(* Deferred actions: a cb: button whose Action has a delay and whose message
   is known (edit_loading_message, then enqueue_action_task or
   threading.Timer), the handlers /task/action and /task/broadcast, and the
   timer fallback _later.  The presses are those of one user, who is neither
   owner nor admin, has not shared a contact and has no premium flag. *)

\* the stored Actions: a text or a media Action, with one of two texts, with
\* or without a quota placeholder ({count}, {limit}, {remaining}, {reset})
Actions == [type : {"text", "photo"}, text : {"A", "B"}, quota : BOOLEAN]

\* the bots rows: the gate flags and the name the templates render
DeferBots == [manual_approval : BOOLEAN, lock_bot : BOOLEAN,
              bot_username : {"bot1", "bot2"}]

FirstBot == [manual_approval |-> FALSE, lock_bot |-> FALSE, bot_username |-> "bot1"]

\* the values of the X-Tasks-Secret header of a request
Headers == {"", "s3cret", "guess"}

\* the users row of the pressing user
DeferUser == [is_verified |-> FALSE, is_premium |-> FALSE]

NoText == [body |-> "", bot_username |-> "", quota |-> "none"]

NoDtx == [bot_row |-> FirstBot, act |-> <<>>]

\* render_placeholders(act.text, bot_row.bot_username, urow), followed by
\* apply_scan_placeholders when scan is TRUE: a quota placeholder of the text
\* is replaced by the user's figures, otherwise it stays as written
Render(act, bot_row, scan) ==
    [body |-> act.text,
     bot_username |-> bot_row.bot_username,
     quota |-> IF ~act.quota THEN "none" ELSE IF scan THEN "applied" ELSE "raw"]

\* an entry of the history: press p (0: a request that no press scheduled)
Entry(p, what, method, txt, bot_row, header) ==
    [p |-> p, what |-> what, method |-> method, text |-> txt,
     bot_row |-> bot_row, header |-> header]

\* can_use_tasks_action: "_HAS_CLOUD_TASKS and all([GCP_PROJECT,
\* TASKS_LOCATION, TASKS_QUEUE, TASKS_SECRET, PUBLIC_BASE_URL])"
can_use_tasks_action == tasks_configured /\ TASKS_SECRET # ""

InitDefer ==
    /\ TASKS_SECRET \in {"", "s3cret"}
    /\ tasks_configured \in BOOLEAN
    /\ action \in {<<a>> : a \in Actions}
    /\ dbot = FirstBot
    /\ dpc = [p \in Procs |-> "idle"]
    /\ dtx = [p \in Procs |-> NoDtx]
    /\ scheduled = [p \in Procs |-> "none"]
    /\ dlog = <<>>
    /\ nDeferEvents = 0

IdleDefer ==
    /\ TASKS_SECRET = ""
    /\ tasks_configured = FALSE
    /\ action = NULL
    /\ dbot = FirstBot
    /\ dpc = [p \in Procs |-> "idle"]
    /\ dtx = [p \in Procs |-> NoDtx]
    /\ scheduled = [p \in Procs |-> "none"]
    /\ dlog = <<>>
    /\ nDeferEvents = 0

PressOrder_ScheduleFirst(label) ==
    IF label = "gate" THEN "schedule"
    ELSE IF label = "schedule" THEN "loading"
    ELSE "done"

\* the order of the steps of the webhook handler after the gate: "Step 1:
\* edit current message into LOADING", "Step 2: queue delayed action",
\* 'return "OK", 200'
PressOrder(label) ==
    IF label = "gate" THEN "loading"
    ELSE IF label = "loading" THEN "schedule"
    ELSE "done"

\* the user presses the cb: button: bot_row is the webhook's,
\* "act = actions_get(bot_id, key)", then "if not ensure_access(bot_row,
\* chat_id, uid, user_row): return"
DeferPress(p) ==
    /\ UNCHANGED NotDefer
    /\ dpc[p] = "idle"
    /\ action # NULL
    /\ dtx' = [dtx EXCEPT ![p] = [bot_row |-> dbot, act |-> action]]
    /\ \E joined \in BOOLEAN :
          IF ensure_access(dbot, DeferUser, joined)
          THEN /\ dpc' = [dpc EXCEPT ![p] = PressOrder("gate")]
               /\ UNCHANGED dlog
          ELSE /\ dpc' = [dpc EXCEPT ![p] = "done"]
               /\ dlog' = Append(dlog, Entry(p, "gate", "sendMessage", NoText, dbot, ""))
    /\ UNCHANGED <<TASKS_SECRET, tasks_configured, action, dbot, scheduled,
                   nDeferEvents>>

\* "Step 1: edit current message into LOADING":
\* edit_loading_message(bot_row, chat_id, message_id, urow)
DeferLoading(p) ==
    /\ UNCHANGED NotDefer
    /\ dpc[p] = "loading"
    /\ dlog' = Append(dlog, Entry(p, "loading", "editMessageText", NoText,
                                  dtx[p].bot_row, ""))
    /\ dpc' = [dpc EXCEPT ![p] = PressOrder("loading")]
    /\ UNCHANGED <<TASKS_SECRET, tasks_configured, action, dbot, dtx, scheduled,
                   nDeferEvents>>

\* "Step 2: queue delayed action": enqueue_action_task when
\* can_use_tasks_action(), otherwise threading.Timer(delay, _later).start()
DeferSchedule(p) ==
    /\ UNCHANGED NotDefer
    /\ dpc[p] = "schedule"
    /\ scheduled' = [scheduled EXCEPT ![p] =
                        IF can_use_tasks_action THEN "task" ELSE "timer"]
    /\ dlog' = Append(dlog, Entry(p, "schedule", "", NoText, dtx[p].bot_row, ""))
    /\ dpc' = [dpc EXCEPT ![p] = PressOrder("schedule")]
    /\ UNCHANGED <<TASKS_SECRET, tasks_configured, action, dbot, dtx,
                   nDeferEvents>>

\* "if TASKS_SECRET and request.headers.get('X-Tasks-Secret', '') !=
\* TASKS_SECRET: return ... 403"
Forbidden(header) == TASKS_SECRET # "" /\ header # TASKS_SECRET

FiredAction_Captured(p) == IF p \in Procs THEN dtx[p].act ELSE action

\* "act = actions_get(str(bot_id), str(key))" of task_action and
\* "act2 = actions_get(bot_id, key)" of _later: the row stored now
FiredAction(p) == action

\* what task_action does with the message: with a message_id it calls
\* edit_message (editMessageText) with the rendered text, quota placeholders
\* applied; edit_message does not raise, so the handler returns there
task_action_outcome(act, bot_row) ==
    [method |-> "editMessageText", text |-> Render(act, bot_row, TRUE)]

\* what _later does with the message: edit_media for a media Action,
\* edit_message otherwise, with the text of render_placeholders
later_outcome(act, bot_row) ==
    [method |-> IF act.type # "text" THEN "editMessageMedia" ELSE "editMessageText",
     text |-> Render(act, bot_row, FALSE)]

\* task_action for a request with this header, asking for the message of
\* press p: the secret test, "bot_row = get_bot_by_id(...)", actions_get,
\* get_user_row, ensure_access, rendering and the edit
task_action(p, header) ==
    IF Forbidden(header) \/ FiredAction(p) = NULL
    THEN UNCHANGED dlog
    ELSE \E joined \in BOOLEAN :
            IF ensure_access(dbot, DeferUser, joined)
            THEN LET out == task_action_outcome(Val(FiredAction(p)), dbot)
                 IN  dlog' = Append(dlog, Entry(p, "final", out.method, out.text,
                                                dbot, header))
            ELSE dlog' = Append(dlog, Entry(p, "gate", "sendMessage", NoText,
                                            dbot, header))

\* the queue runs the task of press p: the request enqueue_action_task
\* built, with "X-Tasks-Secret": TASKS_SECRET
DeferTaskFire(p) ==
    /\ UNCHANGED NotDefer
    /\ scheduled[p] = "task"
    /\ scheduled' = [scheduled EXCEPT ![p] = "fired"]
    /\ task_action(p, TASKS_SECRET)
    /\ UNCHANGED <<TASKS_SECRET, tasks_configured, action, dbot, dpc, dtx,
                   nDeferEvents>>

\* the timer of press p fires _later: actions_get, get_user_row,
\* ensure_access with the bot_row of the press, rendering and the edit
DeferLater(p) ==
    /\ UNCHANGED NotDefer
    /\ scheduled[p] = "timer"
    /\ scheduled' = [scheduled EXCEPT ![p] = "fired"]
    /\ IF FiredAction(p) = NULL
       THEN UNCHANGED dlog
       ELSE \E joined \in BOOLEAN :
               IF ensure_access(dtx[p].bot_row, DeferUser, joined)
               THEN LET out == later_outcome(Val(FiredAction(p)), dtx[p].bot_row)
                    IN  dlog' = Append(dlog, Entry(p, "final", out.method, out.text,
                                                   dtx[p].bot_row, ""))
               ELSE dlog' = Append(dlog, Entry(p, "gate", "sendMessage", NoText,
                                               dtx[p].bot_row, ""))
    /\ UNCHANGED <<TASKS_SECRET, tasks_configured, action, dbot, dpc, dtx,
                   nDeferEvents>>

\* somebody posts to /task/action with a payload naming the user's chat and
\* message and the key, and any X-Tasks-Secret header
DeferForeignAction(header) ==
    /\ UNCHANGED NotDefer
    /\ nDeferEvents < MaxDeferEvents
    /\ nDeferEvents' = nDeferEvents + 1
    /\ task_action(0, header)
    /\ UNCHANGED <<TASKS_SECRET, tasks_configured, action, dbot, dpc, dtx,
                   scheduled>>

\* somebody posts to /task/broadcast with a payload naming the tenant, the
\* user and a text: the secret test, then send_message or send_media to the
\* user
DeferForeignBroadcast(header) ==
    /\ UNCHANGED NotDefer
    /\ nDeferEvents < MaxDeferEvents
    /\ nDeferEvents' = nDeferEvents + 1
    /\ IF Forbidden(header)
       THEN UNCHANGED dlog
       ELSE dlog' = Append(dlog, Entry(0, "broadcast", "sendMessage", NoText,
                                       dbot, header))
    /\ UNCHANGED <<TASKS_SECRET, tasks_configured, action, dbot, dpc, dtx,
                   scheduled>>

\* an admin stores another Action under the key
DeferRedefine(a) ==
    /\ UNCHANGED NotDefer
    /\ nDeferEvents < MaxDeferEvents
    /\ nDeferEvents' = nDeferEvents + 1
    /\ action' = <<a>>
    /\ UNCHANGED <<TASKS_SECRET, tasks_configured, dbot, dpc, dtx, scheduled, dlog>>

\* an admin changes the tenant: a gate flag (st:lock, st:manual) or the
\* name the templates render
DeferSetBot(b) ==
    /\ UNCHANGED NotDefer
    /\ nDeferEvents < MaxDeferEvents
    /\ nDeferEvents' = nDeferEvents + 1
    /\ dbot' = b
    /\ UNCHANGED <<TASKS_SECRET, tasks_configured, action, dpc, dtx, scheduled, dlog>>

\* an admin deletes the Action stored under the key
DeferDelete ==
    /\ UNCHANGED NotDefer
    /\ nDeferEvents < MaxDeferEvents
    /\ nDeferEvents' = nDeferEvents + 1
    /\ action # NULL
    /\ action' = NULL
    /\ UNCHANGED <<TASKS_SECRET, tasks_configured, dbot, dpc, dtx, scheduled, dlog>>

NextDefer ==
    \/ \E p \in Procs : DeferPress(p)
    \/ \E p \in Procs : DeferLoading(p)
    \/ \E p \in Procs : DeferSchedule(p)
    \/ \E p \in Procs : DeferTaskFire(p)
    \/ \E p \in Procs : DeferLater(p)
    \/ \E header \in Headers : DeferForeignAction(header)
    \/ \E header \in Headers : DeferForeignBroadcast(header)
    \/ \E a \in Actions : DeferRedefine(a)
    \/ \E b \in DeferBots : DeferSetBot(b)

\* the same, and an admin who deletes the Action
NextDeferDel ==
    \/ NextDefer
    \/ DeferDelete

-----------------------------------------------------------------------------
(* Button markup: parse_buttons.  A text is the sequence of its lines      *)
(* (text_.split("\n")), never empty: the text "" has the one line "".  A   *)
(* line is                                                                 *)
(* its leading whitespace, what it holds, and for a line of the form       *)
(* !<row><type> <content> the parts the pattern captures.  A URL is the    *)
(* sequence of its pieces, so that "begins with http" is a test of its     *)
(* first piece.                                                            *)

\* lines of one template
MaxLines == 3

\* row numbers written in a template: 10 sorts after 2 as a number and
\* before it as a string
RowNumbers == {2, 10}

\* URLs written after the "|" of a link line
Urls == { <<"example.com">>,
          <<"http", "://", "example.com">>,
          <<"http", "s", "://", "example.com">>,
          <<"http", "bin.org">> }

\* the line ""
BlankLine == [lead |-> FALSE, kind |-> "blank", row |-> 0, typ |-> "",
              pipe |-> FALSE, body |-> "", url |-> <<>>]

\* lines of plain text, "x" and "y", written at the margin or indented
TextLines == [lead : BOOLEAN, kind : {"text"}, row : {0}, typ : {""},
              pipe : {FALSE}, body : {"x", "y"}, url : {<<>>}]

\* a line that starts with "!" and is not of the pattern, "!oops"
BangLine == [lead |-> FALSE, kind |-> "bang", row |-> 0, typ |-> "",
             pipe |-> FALSE, body |-> "!oops", url |-> <<>>]

\* "!<row>link Go|<url>", "!<row>link example.com" and
\* "!<row>callback Cb|key", at the margin or indented
DslLines ==
    [lead : BOOLEAN, kind : {"dsl"}, row : RowNumbers, typ : {"link"},
     pipe : {TRUE}, body : {"Go"}, url : Urls]
    \cup [lead : BOOLEAN, kind : {"dsl"}, row : RowNumbers, typ : {"link"},
          pipe : {FALSE}, body : {""}, url : {<<"example.com">>}]
    \cup [lead : BOOLEAN, kind : {"dsl"}, row : RowNumbers, typ : {"callback"},
          pipe : {TRUE}, body : {"Cb"}, url : {<<"key">>}]

Lines == {BlankLine, BangLine} \cup TextLines \cup DslLines

Templates == UNION { [1..n -> Lines] : n \in 1..MaxLines }

\* line.startswith("!") and re.match(pattern, line.strip())
IsButtonLine(line) == ~line.lead /\ line.kind = "dsl"

\* url.startswith("http")
StartsWithHttp(url) == url # <<>> /\ Head(url) = "http"

\* the dict appended to rows[row]
Button(line) ==
    IF line.typ = "link"
    THEN [text |-> IF line.pipe THEN line.body ELSE "Link",
          url |-> <<IF StartsWithHttp(line.url) THEN line.url
                    ELSE <<"http", "s", "://">> \o line.url>>,
          callback_data |-> NULL]
    ELSE [text |-> line.body, url |-> NULL,
          callback_data |-> <<<<"cb:">> \o line.url>>]

\* rows[r] after the loop: the buttons of row r in the order of their lines
RECURSIVE RowOf(_, _)
RowOf(lines, r) ==
    IF lines = <<>> THEN <<>>
    ELSE (IF IsButtonLine(Head(lines)) /\ Head(lines).row = r
          THEN <<Button(Head(lines))>> ELSE <<>>) \o RowOf(Tail(lines), r)

\* visible after the loop
RECURSIVE Visible(_)
Visible(lines) ==
    IF lines = <<>> THEN <<>>
    ELSE (IF IsButtonLine(Head(lines)) THEN <<>> ELSE <<Head(lines)>>)
         \o Visible(Tail(lines))

\* rows.keys()
RowKeys(lines) == { lines[i].row : i \in { j \in DOMAIN lines : IsButtonLine(lines[j]) } }

RECURSIVE Ascending(_)
Ascending(S) ==
    IF S = {} THEN <<>>
    ELSE LET m == CHOOSE x \in S : \A y \in S : x <= y
         IN  <<m>> \o Ascending(S \ {m})

\* the keys in the order the loop inserted them
RECURSIVE InsertionOrder(_, _)
InsertionOrder(lines, seen) ==
    IF lines = <<>> THEN <<>>
    ELSE IF IsButtonLine(Head(lines)) /\ Head(lines).row \notin seen
         THEN <<Head(lines).row>>
              \o InsertionOrder(Tail(lines), seen \cup {Head(lines).row})
         ELSE InsertionOrder(Tail(lines), seen)

SortedKeys_InsertionOrder(lines) == InsertionOrder(lines, {})

\* sorted(rows.keys())
SortedKeys(lines) == Ascending(RowKeys(lines))

\* "\n".join(visible): the text of no line is the text of the one line ""
Join(lines) == IF lines = <<>> THEN <<BlankLine>> ELSE lines

\* s.strip(), on the lines of s: the blank lines at the two ends go, and so
\* does the indentation of the first line left
RECURSIVE DropBlankHead(_)
DropBlankHead(lines) ==
    IF lines = <<>> THEN <<>>
    ELSE IF Head(lines).kind = "blank" THEN DropBlankHead(Tail(lines))
    ELSE lines

RECURSIVE DropBlankTail(_)
DropBlankTail(lines) ==
    IF lines = <<>> THEN <<>>
    ELSE IF lines[Len(lines)].kind = "blank"
         THEN DropBlankTail(SubSeq(lines, 1, Len(lines) - 1))
    ELSE lines

Strip(lines) ==
    LET kept == DropBlankTail(DropBlankHead(lines))
    IN  IF kept = <<>> THEN <<BlankLine>>
        ELSE <<[Head(kept) EXCEPT !.lead = FALSE]>> \o Tail(kept)

parse_buttons(text_) ==
    IF text_ = <<BlankLine>>
    THEN [text |-> <<BlankLine>>, reply_markup |-> NULL]
    ELSE LET keys == SortedKeys(text_)
             kb   == [i \in 1..Len(keys) |-> RowOf(text_, keys[i])]
         IN  [text |-> Strip(Join(Visible(text_))),
              reply_markup |-> IF kb # <<>> THEN <<kb>> ELSE NULL]

NotParsed == [text |-> <<BlankLine>>, reply_markup |-> NULL]

InitBtn ==
    /\ template \in Templates
    /\ bpc = "text"
    /\ parsed = NotParsed

IdleBtn ==
    /\ template = <<BlankLine>>
    /\ bpc = "idle"
    /\ parsed = NotParsed

\* a sender compiles the template
BtnParse ==
    /\ UNCHANGED NotBtn
    /\ bpc = "text"
    /\ bpc' = "parsed"
    /\ parsed' = parse_buttons(template)
    /\ UNCHANGED template

NextBtn == BtnParse

-----------------------------------------------------------------------------
(* Outgoing HTML: sanitize_telegram_html, _trim, the helpers that send or  *)
(* edit in HTML mode, and send_contact_report_to_admin.  A text is the     *)
(* sequence of its characters; "b" is a tag name of _ALLOWED_TAGS and "z"  *)
(* one that is not.  The budgets are the environment's TG_MAX_TEXT and     *)
(* TG_MAX_CAPTION, caption below text as in the defaults; the service runs *)
(* here with budgets of a few characters.                                  *)

\* longest text handed to a helper
MaxTextLen == 5

\* TG_MAX_TEXT and TG_MAX_CAPTION of the environment
TG_MAX_TEXT == 4
TG_MAX_CAPTION == 3

\* characters of the texts
Chars == {"<", ">", "b", "z"}

HtmlTexts == UNION { [1..n -> Chars] : n \in 0..MaxTextLen }

\* [a-zA-Z0-9\-]
NameChars == {"b", "z"}

\* the names of _ALLOWED_TAGS a text over Chars can spell
ALLOWED_TAGS == { <<"b">> }

\* the one character appended to a cut text, U+2026
Ellipsis == "..."

\* the helpers that put a text or a caption into a request in HTML mode
Paths == {"send_message", "edit_message", "edit_caption", "send_media",
          "edit_media", "send_contact_report_to_admin"}

\* the line send_contact_report_to_admin appends to the caption: text that
\* holds an allowed tag
ReportSuffix == <<"<", "b", ">">>

\* s[:limit] and the marker for a text over the limit
_trim(s, limit) ==
    IF s = <<>> THEN <<>>
    ELSE IF Len(s) <= limit THEN s
    ELSE SubSeq(s, 1, limit) \o <<Ellipsis>>

\* html.escape of one character and of a text
EscapeChar(c) ==
    CASE c = "<" -> <<"&", "l", "t", ";">>
      [] c = ">" -> <<"&", "g", "t", ";">>
      [] c = "&" -> <<"&", "a", "m", "p", ";">>
      [] OTHER   -> <<c>>

RECURSIVE Escape(_)
Escape(s) == IF s = <<>> THEN <<>> ELSE EscapeChar(Head(s)) \o Escape(Tail(s))

\* where the match of </?[^>]+> that starts at i ends, 0 if none starts
\* there: s[i] is "<", the first ">" after it has a character in between
TagEnd(s, i) ==
    IF s[i] = "<" /\ \E j \in (i + 1)..Len(s) : s[j] = ">"
    THEN LET j == CHOOSE k \in (i + 1)..Len(s) :
                      s[k] = ">" /\ \A m \in (i + 1)..(k - 1) : s[m] # ">"
         IN  IF j >= i + 2 THEN j ELSE 0
    ELSE 0

\* group 1 of </?\s*([a-zA-Z0-9\-]+) on a tag: the run of name characters
\* after "<", empty when the pattern does not match
RECURSIVE NameRun(_, _)
NameRun(tag, i) ==
    IF i <= Len(tag) /\ tag[i] \in NameChars
    THEN <<tag[i]>> \o NameRun(tag, i + 1)
    ELSE <<>>

TagName(tag) == NameRun(tag, 2)

\* repl
repl(tag) ==
    IF TagName(tag) = <<>> THEN Escape(tag)
    ELSE IF TagName(tag) \in ALLOWED_TAGS THEN tag
    ELSE Escape(tag)

\* re.sub(r"</?[^>]+>", repl, text_) from position i on
RECURSIVE Sub(_, _)
Sub(s, i) ==
    IF i > Len(s) THEN <<>>
    ELSE IF TagEnd(s, i) # 0
         THEN repl(SubSeq(s, i, TagEnd(s, i))) \o Sub(s, TagEnd(s, i) + 1)
         ELSE <<s[i]>> \o Sub(s, i + 1)

sanitize_telegram_html(text_) ==
    IF text_ = <<>> THEN <<>>
    ELSE _trim(Sub(text_, 1), TG_MAX_TEXT)

\* the text or caption field of the request, NULL when the helper makes no
\* request or leaves the field out
Payload(path, text_) ==
    CASE path = "send_message" ->
             IF text_ = <<>> THEN NULL ELSE <<sanitize_telegram_html(text_)>>
      [] path = "edit_message" -> <<sanitize_telegram_html(text_)>>
      [] path = "edit_caption" ->
             <<_trim(sanitize_telegram_html(text_), TG_MAX_CAPTION)>>
      [] path \in {"send_media", "edit_media"} ->
             LET cap == _trim(sanitize_telegram_html(text_), TG_MAX_CAPTION)
             IN  IF cap = <<>> THEN NULL ELSE <<cap>>
      [] path = "send_contact_report_to_admin" ->
             <<_trim(text_ \o ReportSuffix, TG_MAX_CAPTION)>>

InitHtml ==
    /\ html_text \in HtmlTexts
    /\ html_path \in Paths
    /\ hpc = "call"
    /\ html_payload = NULL

IdleHtml ==
    /\ html_text = <<>>
    /\ html_path = "idle"
    /\ hpc = "idle"
    /\ html_payload = NULL

\* the helper builds its request and hands it to tg_call
HtmlSend ==
    /\ UNCHANGED NotHtml
    /\ hpc = "call"
    /\ hpc' = "sent"
    /\ html_payload' = Payload(html_path, html_text)
    /\ UNCHANGED <<html_text, html_path>>

NextHtml == HtmlSend

-----------------------------------------------------------------------------
(* Contact verification: handle_contact for the users of one tenant, with  *)
(* the unique index users_phone_unique on (bot_id, phone)                  *)

\* contact messages delivered in one behaviour
MaxContactEvents == 3

\* the users that send contacts
KUsers == {1, 2}

\* contact.phone_number after strip(): empty, or one of two numbers
Phones == {"", "A", "B"}

\* a message: its sender, the user_id of its contact (0: the message holds
\* no contact or one without a user_id) and the contact's phone number
ContactMsgs == [from : KUsers, owner : KUsers \cup {0}, phone : Phones]

NoKtx == [msg |-> [from |-> 1, owner |-> 0, phone |-> ""], written |-> FALSE]

\* the row INSERT ... ON CONFLICT DO NOTHING of upsert_user creates
NewContactRow == [phone |-> NULL, is_verified |-> FALSE]

InitPhone ==
    /\ contacts = [u \in KUsers |-> NULL]
    /\ kpc = [p \in Procs |-> "idle"]
    /\ ktx = [p \in Procs |-> NoKtx]
    /\ klock = [u \in KUsers |-> 0]
    /\ verified_by = [u \in KUsers |-> 0]
    /\ nContactEvents = 0

IdlePhone == InitPhone

\* a contact message arrives; upsert_user makes sure the sender has a row
KDeliver(p, m) ==
    /\ UNCHANGED NotPhone
    /\ kpc[p] \in {"idle", "done", "rejected"}
    /\ nContactEvents < MaxContactEvents
    /\ nContactEvents' = nContactEvents + 1
    /\ ktx' = [ktx EXCEPT ![p] = [msg |-> m, written |-> FALSE]]
    /\ contacts' = IF contacts[m.from] = NULL
                   THEN [contacts EXCEPT ![m.from] = <<NewContactRow>>]
                   ELSE contacts
    /\ kpc' = [kpc EXCEPT ![p] = "check"]
    /\ UNCHANGED <<klock, verified_by>>

\* "if not contact or contact.get('user_id') != uid"
NotOwnContact(m) == m.owner # m.from

\* the two tests before the database is read
KCheck(p) ==
    /\ UNCHANGED NotPhone
    /\ kpc[p] = "check"
    /\ kpc' = [kpc EXCEPT ![p] =
                 IF NotOwnContact(ktx[p].msg) \/ ktx[p].msg.phone = ""
                 THEN "rejected" ELSE "select"]
    /\ UNCHANGED <<contacts, ktx, klock, verified_by, nContactEvents>>

\* a committed row of another user holds the number
HeldByOther(u, ph) ==
    \E v \in KUsers \ {u} : contacts[v] # NULL /\ Val(contacts[v]).phone = <<ph>>

\* SELECT user_id FROM users WHERE bot_id=:b AND phone=:p, and its test
KSelect(p) ==
    /\ UNCHANGED NotPhone
    /\ kpc[p] = "select"
    /\ kpc' = [kpc EXCEPT ![p] =
                 IF HeldByOther(ktx[p].msg.from, ktx[p].msg.phone)
                 THEN "rejected" ELSE "update"]
    /\ UNCHANGED <<contacts, ktx, klock, verified_by, nContactEvents>>

UniqueViolation_NoIndex(u, ph) == FALSE

\* users_phone_unique refuses the UPDATE: IntegrityError
UniqueViolation(u, ph) == HeldByOther(u, ph)

\* another transaction has written the number to another row and has not
\* committed: the index makes the UPDATE wait for it
IndexWait(p) ==
    \E q \in Procs \ {p} :
       /\ kpc[q] = "commit"
       /\ ktx[q].msg.phone = ktx[p].msg.phone
       /\ ktx[q].msg.from # ktx[p].msg.from

\* UPDATE users SET phone=:p, is_verified=TRUE, inside engine.begin(): it
\* takes the row's lock, waits for a conflicting index entry, and fails with
\* IntegrityError when the number is committed on another row
KUpdate(p) ==
    /\ UNCHANGED NotPhone
    /\ kpc[p] = "update"
    /\ klock[ktx[p].msg.from] = 0
    /\ ~IndexWait(p)
    /\ IF UniqueViolation(ktx[p].msg.from, ktx[p].msg.phone)
       THEN /\ kpc' = [kpc EXCEPT ![p] = "rejected"]
            /\ UNCHANGED <<ktx, klock>>
       ELSE /\ kpc' = [kpc EXCEPT ![p] = "commit"]
            /\ ktx' = [ktx EXCEPT ![p].written = TRUE]
            /\ klock' = [klock EXCEPT ![ktx[p].msg.from] = p]
    /\ UNCHANGED <<contacts, verified_by, nContactEvents>>

\* the engine.begin() block ends: commit
KCommit(p) ==
    /\ UNCHANGED NotPhone
    /\ kpc[p] = "commit"
    /\ LET m == ktx[p].msg
       IN  /\ contacts' = [contacts EXCEPT ![m.from] =
                              <<[phone |-> <<m.phone>>, is_verified |-> TRUE]>>]
           /\ verified_by' = [verified_by EXCEPT ![m.from] = m.owner]
           /\ klock' = [klock EXCEPT ![m.from] = 0]
    /\ kpc' = [kpc EXCEPT ![p] = "done"]
    /\ UNCHANGED <<ktx, nContactEvents>>

NextPhone ==
    \/ \E p \in Procs, m \in ContactMsgs : KDeliver(p, m)
    \/ \E p \in Procs : KCheck(p)
    \/ \E p \in Procs : KSelect(p)
    \/ \E p \in Procs : KUpdate(p)
    \/ \E p \in Procs : KCommit(p)

-----------------------------------------------------------------------------
(* Command dispatch: the command branch of telegram_webhook for a text     *)
(* message of a user who is not an admin and has no session state, and     *)
(* parse_command_name.  A text is the sequence of its characters.          *)

\* command names as written
W_start == <<"s", "t", "a", "r", "t">>
W_START == <<"S", "T", "A", "R", "T">>
W_myid  == <<"m", "y", "i", "d">>
W_hello == <<"h", "e", "l", "l", "o">>
W_HELLO == <<"H", "E", "L", "L", "O">>

\* what follows the name: nothing, more letters, the platform suffix
\* @<bot>, a character outside [a-zA-Z0-9_], an argument
CmdTails == { <<>>, <<"u", "p">>, <<"@", "b">>, <<"!">>, <<" ", "5">> }

\* the texts of the messages
CmdTexts ==
    { <<"/">> \o n \o t : n \in {W_start, W_START, W_myid, W_hello, W_HELLO},
                          t \in CmdTails }
    \cup {W_hello}

\* the names an admin may have stored an Action cmd:<name> for
StoredNames == { n \o t : n \in {W_start, W_myid, W_hello},
                          t \in {<<>>, <<"u", "p">>} }

\* the built-in commands this user's texts can reach
BuiltIns == {W_start, W_myid}

\* s.startswith(pre)
HasPrefix(s, pre) == Len(s) >= Len(pre) /\ SubSeq(s, 1, Len(pre)) = pre

\* text_msg.split()[0]
RECURSIVE FirstToken(_)
FirstToken(s) ==
    IF s = <<>> \/ Head(s) = " " THEN <<>>
    ELSE <<Head(s)>> \o FirstToken(Tail(s))

\* cmd.split("@", 1)[0]
RECURSIVE BeforeAt(_)
BeforeAt(s) ==
    IF s = <<>> \/ Head(s) = "@" THEN <<>>
    ELSE <<Head(s)>> \o BeforeAt(Tail(s))

\* [a-zA-Z0-9_]
WordChars == {"s", "t", "a", "r", "m", "y", "i", "d", "h", "e", "l", "o",
              "u", "p", "b", "S", "T", "A", "R", "H", "E", "L", "O", "5", "_"}

\* str.lower on one character
LowerChar(c) ==
    CASE c = "S" -> "s" [] c = "T" -> "t" [] c = "A" -> "a" [] c = "R" -> "r"
      [] c = "H" -> "h" [] c = "E" -> "e" [] c = "L" -> "l" [] c = "O" -> "o"
      [] OTHER -> c

\* re.sub(r"[^a-zA-Z0-9_]", "", cmd).lower()
RECURSIVE CleanLower(_)
CleanLower(s) ==
    IF s = <<>> THEN <<>>
    ELSE (IF Head(s) \in WordChars THEN <<LowerChar(Head(s))>> ELSE <<>>)
         \o CleanLower(Tail(s))

parse_command_name(text_msg) ==
    IF text_msg = <<>> \/ Head(text_msg) # "/" THEN <<>>
    ELSE CleanLower(BeforeAt(Tail(FirstToken(text_msg))))

\* the built-in whose branch of the if/elif chain takes the text:
\* text_msg.startswith("/start"), text_msg.startswith("/myid")
BuiltInOf(text_msg) ==
    IF HasPrefix(text_msg, <<"/">> \o W_start) THEN W_start
    ELSE IF HasPrefix(text_msg, <<"/">> \o W_myid) THEN W_myid
    ELSE <<>>

NoneRan == [builtin |-> <<>>, looked_up |-> NULL, rendered |-> FALSE]

\* what the webhook runs for the text: handle_start returns; after any
\* other branch, and after none, a text that starts with "/" is looked up as
\* cmd:<name> and the Action is rendered when there is one
Dispatch(text_msg, store) ==
    LET b   == BuiltInOf(text_msg)
        cmd == parse_command_name(text_msg)
    IN  IF b = W_start THEN [NoneRan EXCEPT !.builtin = b]
        ELSE IF Head(text_msg) = "/" /\ cmd # <<>>
             THEN [builtin |-> b, looked_up |-> <<cmd>>, rendered |-> cmd \in store]
             ELSE [NoneRan EXCEPT !.builtin = b]

InitCmd ==
    /\ cmd_text \in CmdTexts
    /\ cmd_store \in SUBSET StoredNames
    /\ cmd_pc = "message"
    /\ cmd_ran = NoneRan

IdleCmd ==
    /\ cmd_text = <<>>
    /\ cmd_store = {}
    /\ cmd_pc = "idle"
    /\ cmd_ran = NoneRan

\* the webhook handles the message
CmdDispatch ==
    /\ UNCHANGED NotCmd
    /\ cmd_pc = "message"
    /\ cmd_pc' = "handled"
    /\ cmd_ran' = Dispatch(cmd_text, cmd_store)
    /\ UNCHANGED <<cmd_text, cmd_store>>

NextCmd == CmdDispatch

-----------------------------------------------------------------------------
(* Withdrawal approval across tenants: the /approve and /reject reply path *)
(* and the wd:ap and wd:rj buttons, handled by the webhook of either of    *)
(* two bots for an admin of that bot.  The requesting user has a users row *)
(* in both tenants (one Telegram account that uses both bots).  One event  *)
(* at a time: each handler is one transaction.                             *)

\* events handled in one behaviour
MaxTenantEvents == 2

\* largest balance and largest amount
MaxTenantAmt == 2

Tenants == {"T1", "T2"}

InitTenant ==
    /\ tw \in [bot_id : Tenants, status : {"PENDING"},
               request_amt : 1..MaxTenantAmt, approved_amount : {NULL}]
    /\ tbal \in [Tenants -> 0..MaxTenantAmt]
    /\ tlast = "none"
    /\ nTenantEvents = 0

IdleTenant ==
    /\ tw = [bot_id |-> "T1", status |-> "PENDING", request_amt |-> 1,
             approved_amount |-> NULL]
    /\ tbal = [b \in Tenants |-> 0]
    /\ tlast = "none"
    /\ nTenantEvents = 0

\* the row "SELECT * FROM withdrawals WHERE id=:i" returns to the webhook of
\* tenant b for the id of the request: the statement names no tenant
SelectWd(b) == <<tw>>

\* the transaction of both paths once the amount is known: the request must
\* be found and PENDING; an approval needs the balance of the row
\* (bot_id of the event, user_id of the request) to cover the amount
Process(b, is_app, amt) ==
    LET found == SelectWd(b)
    IN  IF found = NULL \/ Val(found).status # "PENDING"
        THEN UNCHANGED <<tw, tbal>>
        ELSE IF is_app
        THEN IF tbal[b] < amt
             THEN UNCHANGED <<tw, tbal>>
             ELSE /\ tbal' = [tbal EXCEPT ![b] = @ - amt]
                  /\ tw' = [tw EXCEPT !.status = "APPROVED",
                                      !.approved_amount = <<amt>>]
        ELSE /\ tw' = [tw EXCEPT !.status = "REJECTED"]
             /\ UNCHANGED tbal

\* an admin of tenant b replies /approve <amt> or /reject to a message that
\* holds the id of the request
TenantReply(b, is_app, amt) ==
    /\ UNCHANGED NotTenant
    /\ nTenantEvents < MaxTenantEvents
    /\ nTenantEvents' = nTenantEvents + 1
    /\ tlast' = b
    /\ Process(b, is_app, amt)

\* an admin of tenant b presses a button wd:ap:<id> or wd:rj:<id>; the
\* amount is the number of the request text
TenantButton(b, is_app) ==
    /\ UNCHANGED NotTenant
    /\ nTenantEvents < MaxTenantEvents
    /\ nTenantEvents' = nTenantEvents + 1
    /\ tlast' = b
    /\ Process(b, is_app, tw.request_amt)

NextTenant ==
    \/ \E b \in Tenants, is_app \in BOOLEAN, amt \in 1..MaxTenantAmt :
          TenantReply(b, is_app, amt)
    \/ \E b \in Tenants, is_app \in BOOLEAN : TenantButton(b, is_app)

-----------------------------------------------------------------------------
(* Authorization of admin events: is_owner, is_admin and require_admin in  *)
(* front of the adm: and wd: buttons and of the admin command branch with  *)
(* its /approve and /reject replies, for the events of one tenant.  One    *)
(* event at a time: the test and the transaction of a handler.             *)

\* events handled in one behaviour
MaxAuthEvents == 3

\* last tick of the clock
MaxAuthNow == 2

\* who sends an event: the tenant's owner, the user of the admins row, or
\* a user who is neither
Senders == {"owner", "admin", "other"}

AdminRows == {NULL, <<[expiry_at |-> NULL]>>}
             \cup { <<[expiry_at |-> <<t>>]>> : t \in 1..MaxAuthNow }

InitAuth ==
    /\ admin_row \in AdminRows
    /\ auth_now = 0
    /\ auth_status = "PENDING"
    /\ auth_balance = 1
    /\ auth_premium \in BOOLEAN
    /\ auth_last = [sender |-> "none", ok |-> FALSE]
    /\ nAuthEvents = 0

IdleAuth ==
    /\ admin_row = NULL
    /\ auth_now = 0
    /\ auth_status = "PENDING"
    /\ auth_balance = 1
    /\ auth_premium = FALSE
    /\ auth_last = [sender |-> "none", ok |-> FALSE]
    /\ nAuthEvents = 0

\* uid == int(bot_row["owner_id"])
is_owner(sender) == sender = "owner"

is_admin_now_IgnoreExpiry(sender) == sender = "admin" /\ admin_row # NULL

\* is_admin: the admins row exists and its expiry_at is None or after utcnow()
is_admin_now(sender) ==
    /\ sender = "admin"
    /\ admin_row # NULL
    /\ \/ Val(admin_row).expiry_at = NULL
       \/ Val(Val(admin_row).expiry_at) > auth_now

require_admin(sender) == is_owner(sender) \/ is_admin_now(sender)

\* a wd:ap or wd:rj button, or a /approve 1 or /reject reply to a request:
\* without require_admin the handler returns or the branch is not entered
AuthWithdrawal(sender, is_app) ==
    /\ UNCHANGED NotAuth
    /\ nAuthEvents < MaxAuthEvents
    /\ nAuthEvents' = nAuthEvents + 1
    /\ auth_last' = [sender |-> sender, ok |-> require_admin(sender)]
    /\ IF ~require_admin(sender) \/ auth_status # "PENDING"
       THEN UNCHANGED <<auth_status, auth_balance>>
       ELSE IF ~is_app
       THEN auth_status' = "REJECTED" /\ UNCHANGED auth_balance
       ELSE IF auth_balance < 1
       THEN UNCHANGED <<auth_status, auth_balance>>
       ELSE auth_status' = "APPROVED" /\ auth_balance' = auth_balance - 1
    /\ UNCHANGED <<admin_row, auth_now, auth_premium>>

\* an adm:ap or adm:rj button, or a /approve or /reject reply to a contact
\* report
AuthPremium(sender, is_app) ==
    /\ UNCHANGED NotAuth
    /\ nAuthEvents < MaxAuthEvents
    /\ nAuthEvents' = nAuthEvents + 1
    /\ auth_last' = [sender |-> sender, ok |-> require_admin(sender)]
    /\ auth_premium' = IF require_admin(sender) THEN is_app ELSE auth_premium
    /\ UNCHANGED <<admin_row, auth_now, auth_status, auth_balance>>

\* time passes
AuthTick ==
    /\ UNCHANGED NotAuth
    /\ auth_now < MaxAuthNow
    /\ auth_now' = auth_now + 1
    /\ UNCHANGED <<admin_row, auth_status, auth_balance, auth_premium,
                   auth_last, nAuthEvents>>

\* the owner's /deladmin
AuthDelAdmin ==
    /\ UNCHANGED NotAuth
    /\ admin_row # NULL
    /\ admin_row' = NULL
    /\ UNCHANGED <<auth_now, auth_status, auth_balance, auth_premium,
                   auth_last, nAuthEvents>>

NextAuth ==
    \/ \E sender \in Senders, is_app \in BOOLEAN : AuthWithdrawal(sender, is_app)
    \/ \E sender \in Senders, is_app \in BOOLEAN : AuthPremium(sender, is_app)
    \/ AuthTick
    \/ AuthDelAdmin

-----------------------------------------------------------------------------
(* A press of a scanner button: the cb: branch of telegram_webhook for one  *)
(* user, one provider and one day, from the daily limit gate to the         *)
(* delivery of the scan result.  The presses of the user follow each other. *)

\* presses in one behaviour
MaxPresses == 3

ScanOutcomes == {"none", "limit", "gate", "cooldown", "result", "action", "other"}

InitScan ==
    /\ scan_limit \in Limits
    /\ scan_count = NULL
    /\ scan_cooling = FALSE
    /\ scan_act \in BOOLEAN
    /\ scan_media \in BOOLEAN
    /\ scan_games \in BOOLEAN
    /\ scan_before = NULL
    /\ scan_outcome = "none"
    /\ nPresses = 0

IdleScan ==
    /\ scan_limit = NULL
    /\ scan_count = NULL
    /\ scan_cooling = FALSE
    /\ scan_act = FALSE
    /\ scan_media = FALSE
    /\ scan_games = FALSE
    /\ scan_before = NULL
    /\ scan_outcome = "none"
    /\ nPresses = 0

\* scan_daily_touch_or_block on the row count: no limit or a limit <= 0
\* admits without touching the row; otherwise the upsert inserts count 1 or
\* adds one "WHERE scan_daily_usage.count < :lim", and a call that got no
\* row back is refused
scan_daily_touch_or_block(count, lim) ==
    IF Unlimited(lim) THEN [allowed |-> TRUE, count |-> count]
    ELSE IF count = NULL THEN [allowed |-> TRUE, count |-> <<1>>]
    ELSE IF UnderLimit(Val(count), Val(lim))
         THEN [allowed |-> TRUE, count |-> <<Val(count) + 1>>]
    ELSE [allowed |-> FALSE, count |-> count]

\* "DAILY SCAN LIMIT GATE": "_is_scanner = bool(_media_gate) or
\* bool(_games_gate)", and for a scanner the call of
\* scan_daily_touch_or_block in the gate's own transaction
LimitGate(count, lim) ==
    IF scan_media \/ scan_games
    THEN scan_daily_touch_or_block(count, lim)
    ELSE [allowed |-> TRUE, count |-> count]

\* the scanner fallback ("if not act:") behind the gate, for a provider with
\* media and games: ensure_access, the second call of
\* scan_daily_touch_or_block, scanner_check_and_touch_cooldown and the
\* delivery; every return leaves the "with engine.begin()" block and commits
ScannerFallback(count, lim, passes) ==
    IF ~(scan_media /\ scan_games) THEN [outcome |-> "other", count |-> count]
    ELSE IF ~passes THEN [outcome |-> "gate", count |-> count]
    ELSE LET t == scan_daily_touch_or_block(count, lim)
         IN  IF ~t.allowed THEN [outcome |-> "limit", count |-> t.count]
             ELSE IF scan_cooling THEN [outcome |-> "cooldown", count |-> t.count]
             ELSE [outcome |-> "result", count |-> t.count]

\* the branch of a key with a stored Action: "if not ensure_access(...):
\* return", then the Action's content
ActionBranch(count, passes) ==
    IF ~passes THEN [outcome |-> "gate", count |-> count]
    ELSE [outcome |-> "action", count |-> count]

\* the whole handler of one press; passes is the answer of ensure_access
press(count, lim, passes) ==
    LET g == LimitGate(count, lim)
    IN  IF ~g.allowed THEN [outcome |-> "limit", count |-> g.count]
        ELSE IF scan_act THEN ActionBranch(g.count, passes)
        ELSE ScannerFallback(g.count, lim, passes)

\* the user presses the button
ScanPress(passes) ==
    /\ UNCHANGED NotScan
    /\ nPresses < MaxPresses
    /\ nPresses' = nPresses + 1
    /\ LET r == press(scan_count, scan_limit, passes)
       IN  /\ scan_before' = scan_count
           /\ scan_count' = r.count
           /\ scan_outcome' = r.outcome
           /\ scan_cooling' = (scan_cooling \/ r.outcome = "result")
    /\ UNCHANGED <<scan_limit, scan_act, scan_media, scan_games>>

\* the cooldown_seconds since the last delivered scan pass
ScanCooldownOver ==
    /\ UNCHANGED NotScan
    /\ scan_cooling
    /\ scan_cooling' = FALSE
    /\ UNCHANGED <<scan_limit, scan_count, scan_act, scan_media, scan_games,
                   scan_before, scan_outcome, nPresses>>

NextScan ==
    \/ \E passes \in BOOLEAN : ScanPress(passes)
    \/ ScanCooldownOver

-----------------------------------------------------------------------------
(* Delivery of a scan result: send_scanner_result_edit, the helpers         *)
(* edit_media, edit_caption and edit_message, and the caller's fallback to  *)
(* send_scanner_result.  The platform answers each request with ok or not   *)
(* (the message is not a media message, it was deleted, the request times   *)
(* out).                                                                    *)

\* deliveries in one behaviour
MaxDeliveries == 4

\* the media dicts: a media type the edit supports, one it does not, or none
Medias == [media_type : {"", "photo", "sticker"}, file_id : {"", "f"}]

EditMethods == {"editMessageMedia", "editMessageCaption", "editMessageText", "send"}

\* the platform's answer to each request of one delivery
Answers == [EditMethods -> BOOLEAN]

NoDelivery == [ret |-> FALSE, edited |-> FALSE, sent |-> FALSE]

InitEdit ==
    /\ ed_media \in Medias
    /\ ed_shown = "progress"
    /\ ed_new = 0
    /\ ed_last = NoDelivery
    /\ nDeliveries = 0

IdleEdit ==
    /\ ed_media = [media_type |-> "", file_id |-> ""]
    /\ ed_shown = "progress"
    /\ ed_new = 0
    /\ ed_last = NoDelivery
    /\ nDeliveries = 0

\* edit_media: None for a media type outside photo, video, animation and
\* document, else what tg_call returns for editMessageMedia
edit_media(media_type, ans) ==
    IF media_type \notin {"photo", "video", "animation", "document"}
    THEN "None"
    ELSE tg_call(ans["editMessageMedia"])

\* edit_caption and edit_message: what tg_call returns
edit_caption(ans) == tg_call(ans["editMessageCaption"])

edit_message(ans) == tg_call(ans["editMessageText"])

\* send_scanner_result_edit: with a media type and a file id it calls
\* edit_media inside try/except and returns True when no exception was
\* raised (edit_media raises none: tg_call catches every exception); else
\* edit_caption, and True if its result is truthy; else edit_message and
\* bool() of its result.  edited tells whether the platform accepted an edit
send_scanner_result_edit(media, ans) ==
    IF media.media_type # "" /\ media.file_id # ""
    THEN [ret |-> TRUE, edited |-> edit_media(media.media_type, ans) = "result"]
    ELSE IF edit_caption(ans) = "result"
    THEN [ret |-> TRUE, edited |-> TRUE]
    ELSE [ret |-> edit_message(ans) = "result",
          edited |-> edit_message(ans) = "result"]

\* the caller after an admitted press: "if not send_scanner_result_edit(...):
\* send_scanner_result(...)"
EdDeliver(ans) ==
    /\ UNCHANGED NotEdit
    /\ nDeliveries < MaxDeliveries
    /\ nDeliveries' = nDeliveries + 1
    /\ LET r == send_scanner_result_edit(ed_media, ans)
       IN  /\ ed_shown' = IF r.edited THEN "result" ELSE "progress"
           /\ ed_new' = IF ~r.ret /\ tg_call(ans["send"]) = "result"
                        THEN ed_new + 1 ELSE ed_new
           /\ ed_last' = [ret |-> r.ret, edited |-> r.edited, sent |-> ~r.ret]
    /\ UNCHANGED ed_media

\* an admin stores other media for the provider
EdSetMedia(m) ==
    /\ UNCHANGED NotEdit
    /\ nDeliveries < MaxDeliveries
    /\ m # ed_media
    /\ ed_media' = m
    /\ UNCHANGED <<ed_shown, ed_new, ed_last, nDeliveries>>

NextEdit ==
    \/ \E ans \in Answers : EdDeliver(ans)
    \/ \E m \in Medias : EdSetMedia(m)

-----------------------------------------------------------------------------
(* Specifications: one per part of the program, the other parts idle *)

\* withdrawal approval
WdInit == InitWd /\ IdleRef /\ IdleQuota /\ IdleCool /\ IdleReq /\ IdleSess /\ IdlePrem /\ IdleDefer /\ IdleBtn /\ IdleHtml /\ IdlePhone /\ IdleCmd /\ IdleTenant /\ IdleAuth /\ IdleScan /\ IdleEdit
SpecWd == WdInit /\ [][NextWd]_vars

\* referral credit
RefInit == InitRef /\ IdleWd /\ IdleQuota /\ IdleCool /\ IdleReq /\ IdleSess /\ IdlePrem /\ IdleDefer /\ IdleBtn /\ IdleHtml /\ IdlePhone /\ IdleCmd /\ IdleTenant /\ IdleAuth /\ IdleScan /\ IdleEdit
SpecRef == RefInit /\ [][NextRef]_vars

\* daily scan quota
QuotaInit == InitQuota /\ IdleWd /\ IdleRef /\ IdleCool /\ IdleReq /\ IdleSess /\ IdlePrem /\ IdleDefer /\ IdleBtn /\ IdleHtml /\ IdlePhone /\ IdleCmd /\ IdleTenant /\ IdleAuth /\ IdleScan /\ IdleEdit
SpecQuota == QuotaInit /\ [][NextQuota]_vars

\* daily scan quota while an admin changes the limits
SpecLimit == QuotaInit /\ [][NextLimit]_vars

\* scanner cooldown, checks of concurrent requests
CoolInit == InitCool /\ IdleWd /\ IdleRef /\ IdleQuota /\ IdleReq /\ IdleSess /\ IdlePrem /\ IdleDefer /\ IdleBtn /\ IdleHtml /\ IdlePhone /\ IdleCmd /\ IdleTenant /\ IdleAuth /\ IdleScan /\ IdleEdit
SpecCool == CoolInit /\ [][NextCool]_vars

\* scanner cooldown, one check at a time
SpecCoolSeq == CoolInit /\ [][NextCoolSeq]_vars

\* withdrawal request creation
ReqInit == InitReq /\ IdleWd /\ IdleRef /\ IdleQuota /\ IdleCool /\ IdleSess /\ IdlePrem /\ IdleDefer /\ IdleBtn /\ IdleHtml /\ IdlePhone /\ IdleCmd /\ IdleTenant /\ IdleAuth /\ IdleScan /\ IdleEdit
SpecReq == ReqInit /\ [][NextReq]_vars

\* session states and message routing
SessInit == InitSess /\ IdleWd /\ IdleRef /\ IdleQuota /\ IdleCool /\ IdleReq /\ IdlePrem /\ IdleDefer /\ IdleBtn /\ IdleHtml /\ IdlePhone /\ IdleCmd /\ IdleTenant /\ IdleAuth /\ IdleScan /\ IdleEdit
SpecSess == SessInit /\ [][NextSess]_vars

\* premium gating
PremInit == InitPrem /\ IdleWd /\ IdleRef /\ IdleQuota /\ IdleCool /\ IdleReq /\ IdleSess /\ IdleDefer /\ IdleBtn /\ IdleHtml /\ IdlePhone /\ IdleCmd /\ IdleTenant /\ IdleAuth /\ IdleScan /\ IdleEdit
SpecPrem == PremInit /\ [][NextPrem]_vars

\* deferred actions
DeferInit == InitDefer /\ IdleWd /\ IdleRef /\ IdleQuota /\ IdleCool /\ IdleReq /\ IdleSess /\ IdlePrem /\ IdleBtn /\ IdleHtml /\ IdlePhone /\ IdleCmd /\ IdleTenant /\ IdleAuth /\ IdleScan /\ IdleEdit
SpecDefer == DeferInit /\ [][NextDefer]_vars

\* deferred actions with deletion of the Action; the webhook handler runs to
\* its end, the queue delivers every task it accepted and a started timer
\* fires
SpecDeferFair ==
    /\ DeferInit
    /\ [][NextDeferDel]_vars
    /\ \A p \in Procs : WF_vars(DeferSchedule(p))
    /\ \A p \in Procs : WF_vars(DeferTaskFire(p))
    /\ \A p \in Procs : WF_vars(DeferLater(p))

\* button markup
BtnInit == InitBtn /\ IdleWd /\ IdleRef /\ IdleQuota /\ IdleCool /\ IdleReq /\ IdleSess /\ IdlePrem /\ IdleDefer /\ IdleHtml /\ IdlePhone /\ IdleCmd /\ IdleTenant /\ IdleAuth /\ IdleScan /\ IdleEdit
SpecBtn == BtnInit /\ [][NextBtn]_vars

\* outgoing HTML
HtmlInit == InitHtml /\ IdleWd /\ IdleRef /\ IdleQuota /\ IdleCool /\ IdleReq /\ IdleSess /\ IdlePrem /\ IdleDefer /\ IdleBtn /\ IdlePhone /\ IdleCmd /\ IdleTenant /\ IdleAuth /\ IdleScan /\ IdleEdit
SpecHtml == HtmlInit /\ [][NextHtml]_vars

\* contact verification
PhoneInit == InitPhone /\ IdleWd /\ IdleRef /\ IdleQuota /\ IdleCool /\ IdleReq /\ IdleSess /\ IdlePrem /\ IdleDefer /\ IdleBtn /\ IdleHtml /\ IdleCmd /\ IdleTenant /\ IdleAuth /\ IdleScan /\ IdleEdit
SpecPhone == PhoneInit /\ [][NextPhone]_vars

\* command dispatch
CmdInit == InitCmd /\ IdleWd /\ IdleRef /\ IdleQuota /\ IdleCool /\ IdleReq /\ IdleSess /\ IdlePrem /\ IdleDefer /\ IdleBtn /\ IdleHtml /\ IdlePhone /\ IdleTenant /\ IdleAuth /\ IdleScan /\ IdleEdit
SpecCmd == CmdInit /\ [][NextCmd]_vars

\* withdrawal approval across tenants
TenantInit == InitTenant /\ IdleWd /\ IdleRef /\ IdleQuota /\ IdleCool /\ IdleReq /\ IdleSess /\ IdlePrem /\ IdleDefer /\ IdleBtn /\ IdleHtml /\ IdlePhone /\ IdleCmd /\ IdleAuth /\ IdleScan /\ IdleEdit
SpecTenant == TenantInit /\ [][NextTenant]_vars

\* authorization of admin events
AuthInit == InitAuth /\ IdleWd /\ IdleRef /\ IdleQuota /\ IdleCool /\ IdleReq /\ IdleSess /\ IdlePrem /\ IdleDefer /\ IdleBtn /\ IdleHtml /\ IdlePhone /\ IdleCmd /\ IdleTenant /\ IdleScan /\ IdleEdit
SpecAuth == AuthInit /\ [][NextAuth]_vars

\* presses of a scanner button
ScanInit == InitScan /\ IdleWd /\ IdleRef /\ IdleQuota /\ IdleCool /\ IdleReq /\ IdleSess /\ IdlePrem /\ IdleDefer /\ IdleBtn /\ IdleHtml /\ IdlePhone /\ IdleCmd /\ IdleTenant /\ IdleAuth /\ IdleEdit
SpecScan == ScanInit /\ [][NextScan]_vars

\* deliveries of a scan result
EditInit == InitEdit /\ IdleWd /\ IdleRef /\ IdleQuota /\ IdleCool /\ IdleReq /\ IdleSess /\ IdlePrem /\ IdleDefer /\ IdleBtn /\ IdleHtml /\ IdlePhone /\ IdleCmd /\ IdleTenant /\ IdleAuth /\ IdleScan
SpecEdit == EditInit /\ [][NextEdit]_vars

-----------------------------------------------------------------------------
(* The withdrawal workflow's properties *)

\* C1: for every interleaving of approval attempts on one request the
\* balance is debited at most once for it, and what was removed is the
\* approved_amount stored on the request.
C1_DebitedAtMostOnce ==
    \A r \in Rids :
        /\ Len(debits[r]) <= 1
        /\ debits[r] # <<>> => wd[r].approved_amount = <<SumSeq(debits[r])>>

\* C2: once a request is APPROVED or REJECTED no attempt changes its status,
\* approved amount, processor or processed-at.
C2_TerminalImmutable ==
    [][\A r \in Rids : wd[r].status # "PENDING" => wd'[r] = wd[r]]_vars

\* C7: an attempt that starts when the request is already APPROVED or
\* REJECTED is answered "already processed" and changes neither the balance
\* nor the request.
C7_LateAttemptIsConflict ==
    [][\A p \in Procs :
         (lateStart[p] /\ pc[p] \notin {"idle", "done"} /\ pc'[p] # pc[p])
            => /\ balance' = balance
               /\ wd' = wd
               /\ pc'[p] = "done"
               /\ outcome'[p] = "already_processed"]_vars

C7_Witness ==
    \E p \in Procs :
        /\ pc[p] = "done" /\ lateStart[p] /\ outcome[p] = "already_processed"
        /\ \E r \in Rids : wd[r].status = "APPROVED"

\* C8: the balance is never negative: a debit is written only for a positive
\* amount that does not exceed the balance read under the row lock, which is
\* still the balance when the debit commits.
C8_BalanceNonNegative ==
    /\ FLe(F(0), balance)
    /\ \A p \in Procs :
         tx[p].debit => /\ FLt(F(0), tx[p].amt)
                        /\ FLe(tx[p].amt, tx[p].bal_before)
                        /\ lockU = p
                        /\ tx[p].bal_before = balance
-----------------------------------------------------------------------------
(* The referral credit's properties *)

\* C3: for a new user created by a /start that carries an existing upline
\* other than the user, the upline's balance and share counter are credited
\* exactly once, however often and however concurrently the event is handled.
C3_CreditedExactlyOnce ==
    /\ \A n \in Uids :
         /\ credits[n] <= 1
         /\ (/\ users[n] # NULL
             /\ Val(users[n]).upline_user_id # <<>>
             /\ Val(Val(users[n]).upline_user_id) \in OldUsers \ {n})
              => credits[n] = 1
    /\ \A u \in OldUsers :
         LET referred == {n \in Uids : /\ users[n] # NULL
                                       /\ Val(users[n]).upline_user_id = <<u>>
                                       /\ credits[n] = 1}
         IN  /\ Val(users[u]).shared_count = Cardinality(referred)
             /\ Val(users[u]).balance = AFFILIATE_AMOUNT * Cardinality(referred)

C3_Witness ==
    \E n \in Uids \ OldUsers :
        /\ \A p \in Procs : rpc[p] = "done" /\ rtx[p].uid = n /\ rtx[p].upline_id = <<1>>
        /\ nRefEvents = MaxRefEvents
        /\ credits[n] = 1
        /\ Val(users[1]).balance = AFFILIATE_AMOUNT

\* C18: the amount credited to the upline of a new referred user is the
\* referral amount the tenant has configured with /setshareamt when it has
\* one, and the global default only when it has none.
C18_CreditIsTenantAmount ==
    [][\A p \in Procs :
          (rpc[p] = "commit" /\ rpc'[p] = "done" /\ rtx[p].credit)
             => LET u == Val(rtx[p].upline_id)
                IN  Val(users'[u]).balance - Val(users[u]).balance
                       = IF rtx[p].bot_row_amount # NULL
                         THEN Val(rtx[p].bot_row_amount)
                         ELSE AFFILIATE_AMOUNT]_vars

\* C19: the upline reference of a user is the one of the event that created
\* the row, and no later event changes it, a later /start with another or a
\* first upline id included.
C19_UplineFixedAtCreation ==
    [][/\ \A u \in Uids :
             users[u] # NULL
                => /\ users'[u] # NULL
                   /\ Val(users'[u]).upline_user_id = Val(users[u]).upline_user_id
       /\ \A p \in Procs :
             (rpc[p] = "commit" /\ rpc'[p] = "done" /\ rtx[p].is_new)
                => Val(users'[rtx[p].uid]).upline_user_id = rtx[p].upline_id]_vars

C19_Witness ==
    \E p \in Procs :
        /\ rpc[p] = "done"
        /\ rtx[p].uid \notin OldUsers
        /\ ~rtx[p].is_new
        /\ rtx[p].upline_id # <<>>
        /\ Val(rtx[p].upline_id) \in OldUsers
        /\ Val(users[rtx[p].uid]).upline_user_id # rtx[p].upline_id

\* C20: a user's credited flag is TRUE exactly when the user's creation
\* credited an upline: a credited user has an existing upline other than
\* itself, and every share count and balance is made of the credited users
\* only, so a new user with itself or with a missing user as upline changes
\* nobody's balance or share counter and stays uncredited.
C20_CreditedFlagIffCredit ==
    /\ \A n \in Uids :
          users[n] # NULL
             => /\ Val(users[n]).credited_upline <=> credits[n] = 1
                /\ Val(users[n]).credited_upline
                      => /\ Val(users[n]).upline_user_id # <<>>
                         /\ Val(Val(users[n]).upline_user_id) \in Uids \ {n}
                         /\ users[Val(Val(users[n]).upline_user_id)] # NULL
    /\ \A u \in Uids :
          users[u] # NULL
             => LET credited == {n \in Uids : /\ users[n] # NULL
                                              /\ Val(users[n]).credited_upline
                                              /\ Val(users[n]).upline_user_id = <<u>>}
                IN  /\ Val(users[u]).shared_count = Cardinality(credited)
                    /\ Val(users[u]).balance = 0 <=> credited = {}

C20_Witness ==
    /\ \E p \in Procs :
          /\ rpc[p] = "done"
          /\ rtx[p].is_new
          /\ rtx[p].upline_id # <<>>
          /\ ~rtx[p].credit
          /\ ~Val(users[rtx[p].uid]).credited_upline
    /\ \E n \in Uids : users[n] # NULL /\ Val(users[n]).credited_upline
    /\ \A u \in Uids :
          users[u] # NULL => Val(users[u]).balance = AFFILIATE_AMOUNT * Val(users[u]).shared_count

-----------------------------------------------------------------------------
(* The notifications of the withdrawal workflow *)

\* C11: the notification to the user and the update of the admin's message
\* are sent only after the transaction that changes the request (and debits
\* the balance) has committed: when they are sent the stored request already
\* shows the transition they announce.
C11_NotifyAfterCommit ==
    [][\A p \in Procs :
          (pc[p] = "notify" /\ pc'[p] = "commit") =>
              /\ wd[ev[p].rid].status = tx[p].status
              /\ wd[ev[p].rid].processed_at = <<tx[p].at>>
              /\ wd[ev[p].rid].processed_by = <<AdminOf(p)>>
    ]_vars

\* C12: a failure of an outbound call made while approving or rejecting
\* never prevents or rolls back the transition: the handler goes on to its
\* commit with its writes intact, and the commit stores the status and the
\* debit whether the calls succeeded or failed.
C12_OutboundFailureKeepsLedger ==
    [][\A p \in Procs :
          /\ (pc[p] = "notify" /\ pc'[p] # "notify") =>
                /\ pc'[p] = "commit"
                /\ tx'[p] = tx[p]
                /\ wd' = wd /\ balance' = balance
          /\ (pc[p] = "commit" /\ pc'[p] # "commit") =>
                /\ pc'[p] = "done"
                /\ wd'[ev[p].rid].status = tx[p].status
                /\ wd'[ev[p].rid].processed_at = <<tx[p].at>>
                /\ balance' = IF tx[p].debit THEN FSub(balance, tx[p].amt) ELSE balance
    ]_vars

C12_Witness ==
    \E p \in Procs :
        /\ pc[p] = "done"
        /\ tg[p] = "failed"
        /\ outcome[p] = "approved"
        /\ nEvents = 1
        /\ \E r \in Rids : wd[r].status = "APPROVED" /\ wd[r].approved_amount = <<F(MaxAmt)>>
        /\ balance = F(MaxBal - MaxAmt)

-----------------------------------------------------------------------------
(* The daily quota's properties *)

\* C4: under a positive effective limit L the stored usage counter and the
\* number of admitted calls never exceed L, for any number of concurrent
\* attempts.
C4_NeverAboveLimit ==
    LET lim == get_scan_limit_for_user
    IN  (lim # NULL /\ Val(lim) > 0) =>
            /\ admitted <= Val(lim)
            /\ usage # NULL => Val(usage) <= Val(lim)
            /\ \A p \in Procs : qtx[p].count # <<>> => Val(qtx[p].count) <= Val(lim)

C4_Witness ==
    LET lim == get_scan_limit_for_user
    IN  /\ lim # NULL /\ Val(lim) = MaxLimit
        /\ admitted = Val(lim)
        /\ usage = lim
        /\ \E p \in Procs : qpc[p] = "done" /\ ~qtx[p].allowed
        /\ \E p \in Procs : qpc[p] = "commit" /\ ~qtx[p].allowed

\* C30: when the effective daily limit of the user is missing or not
\* positive, every call of scan_daily_touch_or_block is admitted, reports a
\* used count of 0 and leaves the usage counter of (tenant, user, day) as it
\* is: no row is created and none is incremented.
C30_UnlimitedTouchesNothing ==
    LET lim == get_scan_limit_for_user
    IN  (lim = NULL \/ Val(lim) <= 0) =>
            /\ usage = NULL
            /\ \A p \in Procs :
                  qpc[p] \in {"commit", "done"}
                     => /\ qtx[p].allowed
                        /\ qtx[p].used = 0
                        /\ qtx[p].count = <<>>
                        /\ qtx[p].lim = lim

C30_Witness ==
    /\ get_scan_limit_for_user = <<0>>
    /\ scan_limit_per_day = <<MaxLimit>>
    /\ nScanEvents = MaxScanEvents
    /\ \A p \in Procs : qpc[p] = "done" /\ qtx[p].allowed /\ qtx[p].used = 0
    /\ usage = NULL

-----------------------------------------------------------------------------
(* The cooldown's properties *)

\* C5: of any two cooldown checks whose times are less than the cooldown
\* window apart at most one is admitted (returns 0), also when the checks run
\* concurrently and when no mark exists yet.
C5_AtMostOneAdmittedInWindow ==
    \A i, j \in DOMAIN admits :
        i < j =>
            \/ admits[j] - admits[i] >= cooldown_seconds * TicksPerSecond
            \/ admits[i] - admits[j] >= cooldown_seconds * TicksPerSecond

\* C6: one check at a time: a check made less than cooldown_seconds after
\* the last admitted check is denied with a remaining value of at least 1
\* and leaves last_at unchanged; a check made once the window has elapsed
\* returns 0 and stores its now as last_at.
C6_SequentialCooldown ==
    [][\A p \in Procs :
          LET LastAdmitted == admits[Len(admits)]
              InWindow == /\ admits # <<>>
                          /\ ctx[p].now - LastAdmitted < cooldown_seconds * TicksPerSecond
          IN  /\ (cpc[p] = "select" /\ cpc'[p] # "select" /\ InWindow) =>
                    /\ cpc'[p] = "commit"
                    /\ ctx'[p].remaining >= 1
                    /\ ctx'[p].last_at = <<>>
                    /\ last_at' = last_at
              /\ (cpc[p] = "select" /\ cpc'[p] # "select" /\ ~InWindow) =>
                    cpc'[p] = "upsert"
              /\ (cpc[p] = "upsert" /\ cpc'[p] # "upsert") =>
                    /\ ctx'[p].remaining = 0
                    /\ ctx'[p].last_at = <<ctx[p].now>>
              /\ (cpc[p] = "commit" /\ cpc'[p] = "done") =>
                    last_at' = IF ctx[p].last_at # <<>> THEN <<ctx[p].now>> ELSE last_at
    ]_vars

-----------------------------------------------------------------------------
(* The properties of withdrawal request creation *)

\* C9: when the user's text is processed while the balance is below the
\* tenant's minimum withdrawal, or the amount parsed from the text exceeds
\* the balance, no request row is created, the balance is unchanged and the
\* insufficient-balance message is sent to the user.
C9_InsufficientCreatesNothing ==
    [][\A p \in Procs :
          LET min_wd == IF min_withdraw_amount = NULL THEN MIN_WITHDRAW_DEFAULT
                                                      ELSE Val(min_withdraw_amount)
              req_amt == FirstNumber(wtx[p].text_msg)
              insufficient == \/ ubalance < min_wd
                              \/ req_amt # <<>> /\ Val(req_amt) > ubalance
          IN  /\ (wpc[p] = "read" /\ wpc'[p] # "read" /\ insufficient) =>
                    /\ wpc'[p] = "done"
                    /\ withdrawals' = withdrawals
                    /\ ubalance' = ubalance
                    /\ outbox' = Append(outbox, [kind |-> "insufficient",
                                                 min_wd |-> min_wd, bal |-> ubalance])
              /\ (wpc[p] # wpc'[p]) => ubalance' = ubalance
    ]_vars

C9_Witness ==
    /\ withdrawals = <<>>
    /\ user_state = NULL
    /\ ubalance = MIN_WITHDRAW_DEFAULT
    /\ min_withdraw_amount = <<MaxReqAmt>>
    /\ outbox # <<>>
    /\ outbox[Len(outbox)] = [kind |-> "insufficient", min_wd |-> MaxReqAmt,
                              bal |-> MIN_WITHDRAW_DEFAULT]
    /\ \E p \in Procs : wpc[p] = "done"

\* C10, as claimed: a request whose parsed amount is below the tenant's
\* minimum withdrawal creates no request row, even when the balance is at or
\* above the minimum.
C10_MinimumAppliesToAmount ==
    \A i \in DOMAIN withdrawals :
        LET req_amt == FirstNumber(withdrawals[i].request_text)
        IN  req_amt # <<>> =>
              Val(req_amt) >= IF min_withdraw_amount = NULL THEN MIN_WITHDRAW_DEFAULT
                                                            ELSE Val(min_withdraw_amount)

\* C10, amended: the minimum is compared with the balance the handler read,
\* not with the requested amount: no row is created when that balance is
\* below the minimum, and a text whose amount is below the minimum and not
\* above a sufficient balance does create a PENDING row with that text.
C10_MinimumAppliesToBalance ==
    [][\A p \in Procs :
          LET min_wd == IF min_withdraw_amount = NULL THEN MIN_WITHDRAW_DEFAULT
                                                      ELSE Val(min_withdraw_amount)
              req_amt == FirstNumber(wtx[p].text_msg)
          IN  /\ (wpc[p] = "read" /\ wpc'[p] # "read" /\ ubalance >= min_wd
                    /\ req_amt # <<>> /\ Val(req_amt) < min_wd
                    /\ Val(req_amt) <= ubalance) =>
                        wpc'[p] = "insert"
              /\ (wpc[p] = "insert" /\ wpc'[p] # "insert") =>
                    /\ wtx[p].bal0 >= min_wd
                    /\ withdrawals' = Append(withdrawals,
                                             [request_text |-> wtx[p].text_msg,
                                              status |-> "PENDING"])
              /\ (withdrawals' # withdrawals) => wpc[p] = "insert" \/ wpc'[p] = wpc[p]
    ]_vars

C10_Witness ==
    /\ ubalance = MIN_WITHDRAW_DEFAULT + 1
    /\ min_withdraw_amount = NULL
    /\ Len(withdrawals) = 1
    /\ FirstNumber(withdrawals[1].request_text) = <<1>>
    /\ outbox # <<>>
    /\ outbox[Len(outbox)].kind = "sent"

-----------------------------------------------------------------------------
(* The properties of the session states *)

\* C13: while the user has a session state, every text message, also one
\* that begins with /start, is given to that state's handler and never to
\* the command dispatch.
C13_StateHandlerOnly ==
    [][\A p \in Procs :
          (stx[p].handler = "none" /\ stx'[p].handler # "none" /\ user_states # {})
             => stx'[p].handler \in {"process_withdraw", "handle_addbot_receive_token"}
    ]_vars

\* C14: when the handler of the active state has run for a text message it
\* has cleared the session state, whether it succeeded or failed.
C14_StateClearedAfterHandler ==
    [][\A p \in Procs :
          (/\ stx[p].handler \in {"process_withdraw", "handle_addbot_receive_token"}
           /\ spc[p] # "done" /\ spc'[p] = "done")
             => /\ stx'[p].cleared
                /\ user_states' = {}
    ]_vars

\* C15: the user has at most one session state row, and it is the label and
\* the payload of the last set_user_state, also when two events write
\* states concurrently.
C15_OneStateLastWriteWins ==
    /\ Cardinality(user_states) <= 1
    /\ user_states = IF last_write = NULL THEN {} ELSE {Val(last_write)}

C15_Witness ==
    /\ user_states = {[state |-> "await_addbot_token", payload |-> "{}"]}
    /\ \E p, q \in Procs :
          /\ spc[p] = "done" /\ stx[p].handler = "handle_withdraw_request"
          /\ spc[q] = "done" /\ stx[q].handler = "handle_addbot_start"


-----------------------------------------------------------------------------
(* Premium gating properties (SpecPrem) *)

\* C16: no premium approval or rejection, by an adm:ap or adm:rj button or
\* by an /approve or /reject reply, changes the premium flag of a user who
\* is the owner or a valid admin of the tenant.
C16_AdminNeverTarget ==
    [][target_admin => is_premium' = is_premium]_vars

\* C17: while the tenant requires manual approval, a user who is neither
\* owner nor admin and whose premium flag is false is sent no start
\* content, no Action content (command, button, deferred task) and no scan
\* result.
C17_NoContentWithoutPremium ==
    [][(manual_approval /\ ~target_admin /\ ~is_premium)
          => (received' \ received) \cap ContentKinds = {}]_vars


-----------------------------------------------------------------------------
(* The properties of deferred actions (SpecDefer) *)

\* the entry a step has added to the history, if it added one
Added == Len(dlog') = Len(dlog) + 1
LastEntry == dlog'[Len(dlog')]

\* C21: for a press on an Action with a delay and a known message, the
\* message is edited to the loading representation before the deferred task
\* or timer is scheduled, and the final edit of the press never comes before
\* its loading edit.
C21_LoadingThenScheduleThenFinal ==
    \A i \in DOMAIN dlog :
        /\ (dlog[i].p \in Procs /\ dlog[i].what = "schedule")
              => \E j \in 1..(i - 1) : dlog[j].p = dlog[i].p /\ dlog[j].what = "loading"
        /\ (dlog[i].p \in Procs /\ dlog[i].what = "final")
              => \E j \in 1..(i - 1) : dlog[j].p = dlog[i].p /\ dlog[j].what = "loading"

C21_Witness ==
    \E i, j, k \in DOMAIN dlog :
        /\ i < j /\ j < k
        /\ dlog[i].p = 1 /\ dlog[j].p = 1 /\ dlog[k].p = 1
        /\ dlog[i].what = "loading"
        /\ dlog[j].what = "schedule"
        /\ dlog[k].what = "final"

\* C22: a deferred action renders the Action that is stored under the key
\* when it fires: after a redefinition between press and firing the final
\* edit shows the redefined content, on the queue path and on the timer path.
C22_RendersActionAtFireTime ==
    [][(Added /\ LastEntry.what = "final")
          => /\ action # NULL
             /\ LastEntry.text.body = Val(action).text
             /\ (LastEntry.text.quota # "none") <=> Val(action).quota]_vars

C22_Witness ==
    \E i \in DOMAIN dlog :
        /\ dlog[i].what = "final"
        /\ dlog[i].p \in Procs
        /\ dlog[i].text.body # Val(dtx[dlog[i].p].act).text
        /\ dlog[i].text.body = Val(action).text

\* C23: for the same stored Action, user row and tenant configuration at
\* fire time, the timer fallback produces the outcome of the queue task
\* handler: the same kind of edit and the same rendered text, quota
\* placeholders included.
C23_TimerEqualsTask ==
    [][\A p \in Procs :
          (/\ scheduled[p] = "timer" /\ scheduled'[p] = "fired"
           /\ Added /\ LastEntry.what = "final")
             => [method |-> LastEntry.method, text |-> LastEntry.text]
                   = task_action_outcome(Val(action), LastEntry.bot_row)]_vars

\* C24: a deferred action evaluates its gates and renders with the tenant
\* configuration that is current when it fires, on the queue path and on the
\* timer path.
C24_FiresWithCurrentTenant ==
    [][\A p \in Procs :
          (scheduled[p] # "fired" /\ scheduled'[p] = "fired" /\ Added)
             => LastEntry.bot_row = dbot]_vars

\* C25: /task/action and /task/broadcast work only for a request whose
\* X-Tasks-Secret header equals the configured secret; every other request
\* is refused and nothing is sent, whatever the configuration, an unset
\* secret included.
C25_TaskHandlersNeedSecret ==
    [][(Added /\ LastEntry.p = 0)
          => /\ TASKS_SECRET # ""
             /\ LastEntry.header = TASKS_SECRET]_vars

-----------------------------------------------------------------------------
(* The properties of the button markup (SpecBtn) *)

\* the written URL begins with http:// or https://
HasScheme(url) ==
    \/ Len(url) >= 2 /\ url[1] = "http" /\ url[2] = "://"
    \/ Len(url) >= 3 /\ url[1] = "http" /\ url[2] = "s" /\ url[3] = "://"

\* the lines of the template that are not button lines, in their order
OtherLines == SelectSeq(template, LAMBDA l : ~IsButtonLine(l))

\* the written button lines of row r, in their order
ButtonLines(r) == SelectSeq(template, LAMBDA l : IsButtonLine(l) /\ l.row = r)

\* the keyboard has one row for each row number written, in ascending order
\* of the numbers, and a row holds the buttons of its lines in the order of
\* the lines
RowsInOrder ==
    IF \A i \in DOMAIN template : ~IsButtonLine(template[i])
    THEN parsed.reply_markup = NULL
    ELSE /\ parsed.reply_markup # NULL
         /\ LET kb == Val(parsed.reply_markup)
            IN  \E f \in [1..Len(kb) -> RowNumbers] :
                   /\ \A i, j \in 1..Len(kb) : i < j => f[i] < f[j]
                   /\ \A r \in RowNumbers :
                         (ButtonLines(r) # <<>>) <=> (\E i \in 1..Len(kb) : f[i] = r)
                   /\ \A i \in 1..Len(kb) :
                         kb[i] = [k \in 1..Len(ButtonLines(f[i])) |->
                                     Button(ButtonLines(f[i])[k])]

\* C27: for every link button line the emitted URL carries a scheme: https://
\* is prepended when the written URL does not begin with http:// or
\* https://, and a URL that has a scheme is emitted unchanged.
C27_LinkUrlHasScheme ==
    bpc = "parsed" =>
       \A i \in DOMAIN template :
          (IsButtonLine(template[i]) /\ template[i].typ = "link") =>
             \E r \in DOMAIN Val(parsed.reply_markup) :
                \E k \in DOMAIN Val(parsed.reply_markup)[r] :
                   Val(parsed.reply_markup)[r][k].url
                      = << IF HasScheme(template[i].url) THEN template[i].url
                           ELSE <<"http", "s", "://">> \o template[i].url >>

\* lines without regard to their indentation
Unindented(lines) == [i \in DOMAIN lines |-> [lines[i] EXCEPT !.lead = FALSE]]

\* C28, as stated: rows come in ascending order of their number with the
\* buttons of a row in order of appearance, every button line is removed
\* from the visible text, and every other line is kept in the visible text
\* in its original order (a line counts as kept whatever became of its
\* indentation).
C28_KeepsEveryOtherLine ==
    bpc = "parsed" =>
       /\ RowsInOrder
       /\ Unindented(parsed.text) = Unindented(Join(OtherLines))

\* C28, amended: rows come in ascending order of their number with the
\* buttons of a row in order of appearance, every button line is removed
\* from the visible text, and the other lines are kept in their original
\* order except for the whitespace at the two ends of the visible text:
\* blank lines before the first and after the last line that is not blank,
\* and the indentation of that first line.
C28_KeepsOtherLinesTrimmed ==
    bpc = "parsed" =>
       /\ RowsInOrder
       /\ \E a \in 1..(Len(OtherLines) + 1), b \in 0..Len(OtherLines) :
             /\ \A i \in 1..(a - 1) : OtherLines[i].kind = "blank"
             /\ \A i \in (b + 1)..Len(OtherLines) : OtherLines[i].kind = "blank"
             /\ IF a > b THEN parsed.text = <<BlankLine>>
                ELSE /\ OtherLines[a].kind # "blank"
                     /\ OtherLines[b].kind # "blank"
                     /\ Len(parsed.text) = b - a + 1
                     /\ parsed.text[1] = [OtherLines[a] EXCEPT !.lead = FALSE]
                     /\ \A k \in 2..(b - a + 1) :
                           parsed.text[k] = OtherLines[a + k - 1]

\* a template with a button of row 10 written before one of row 2 and a
\* line of text has been compiled
C28_Witness ==
    /\ bpc = "parsed"
    /\ Len(template) = 3
    /\ IsButtonLine(template[1]) /\ template[1].row = 10
    /\ IsButtonLine(template[2]) /\ template[2].row = 2
    /\ template[3].kind = "text"
    /\ Len(Val(parsed.reply_markup)) = 2
    /\ parsed.text = <<[template[3] EXCEPT !.lead = FALSE]>>

-----------------------------------------------------------------------------
(* The properties of outgoing HTML (SpecHtml) *)

\* a tag the platform would read in s from position i on has a name that is
\* not allowed
RECURSIVE LiveUnknownTag(_, _)
LiveUnknownTag(s, i) ==
    IF i > Len(s) THEN FALSE
    ELSE IF TagEnd(s, i) # 0
         THEN \/ TagName(SubSeq(s, i, TagEnd(s, i))) \notin ALLOWED_TAGS
              \/ LiveUnknownTag(s, TagEnd(s, i) + 1)
         ELSE LiveUnknownTag(s, i + 1)

\* the budget of a path: TG_MAX_TEXT for a text body, TG_MAX_CAPTION for a
\* caption
Budget(path) ==
    IF path \in {"send_message", "edit_message"} THEN TG_MAX_TEXT
    ELSE TG_MAX_CAPTION

\* C26: on every path that sends or edits content in HTML mode, a tag whose
\* name is not in the allowlist never reaches the platform verbatim.
C26_UnknownTagNeverVerbatim ==
    (hpc = "sent" /\ html_payload # NULL)
       => ~LiveUnknownTag(Val(html_payload), 1)

\* C29: every text body handed to the platform is at most TG_MAX_TEXT long
\* and every caption at most TG_MAX_CAPTION, the truncation marker included,
\* and a text within the budget that needs no escaping is sent unchanged.
C29_WithinBudget ==
    (hpc = "sent" /\ html_payload # NULL) =>
       /\ Len(Val(html_payload)) <= Budget(html_path)
       /\ (/\ html_path # "send_contact_report_to_admin"
           /\ Len(html_text) <= Budget(html_path)
           /\ ~LiveUnknownTag(html_text, 1))
             => Val(html_payload) = html_text

-----------------------------------------------------------------------------
(* The properties of the effective limit (SpecLimit) *)

\* C31: the limit a call applies is the user's override whenever an override
\* row exists, whatever the tenant's default, and the tenant's default
\* otherwise; after the override is deleted the calls apply the default.
C31_OverrideBeforeDefault ==
    [][\A p \in Procs :
          (qpc[p] = "touch" /\ qpc'[p] = "commit")
             => qtx'[p].lim = (IF limit_override # NULL THEN limit_override
                               ELSE scan_limit_per_day)]_vars

\* an override that differed from the tenant's default has been deleted and
\* a call made afterwards has applied the default
C31_Witness ==
    /\ override_deleted
    /\ limit_override = NULL
    /\ scan_limit_per_day # NULL
    /\ \E p \in Procs : /\ qpc[p] = "commit"
                         /\ qtx[p].lim = scan_limit_per_day
                         /\ qtx[p].allowed

-----------------------------------------------------------------------------
(* The properties of contact verification (SpecPhone) *)

\* C32: no two users of the tenant hold the same phone number, also when
\* two users submit one number concurrently; a user is verified only by a
\* contact whose owner id is the sender's own id; and a rejected submission
\* changes no row's phone or verified flag.
C32_PhoneUniqueOwnContactOnly ==
    /\ [](\A u, v \in KUsers :
            (/\ u # v /\ contacts[u] # NULL /\ contacts[v] # NULL
             /\ Val(contacts[u]).phone # NULL)
               => Val(contacts[u]).phone # Val(contacts[v]).phone)
    /\ [](\A u \in KUsers :
            (contacts[u] # NULL /\ Val(contacts[u]).is_verified)
               => verified_by[u] = u)
    /\ [][\A p \in Procs :
            (kpc[p] # "rejected" /\ kpc'[p] = "rejected")
               => contacts' = contacts]_vars

\* two users submitted the number A at the same time, both passed the
\* SELECT, one holds the number and the other was refused by the index
C32_Witness ==
    /\ kpc[1] = "done" /\ kpc[2] = "rejected"
    /\ ktx[1].msg.phone = "A" /\ ktx[2].msg.phone = "A"
    /\ ktx[1].msg.from = 1 /\ ktx[2].msg.from = 2
    /\ ktx[2].msg.owner = 2
    /\ nContactEvents = 2
    /\ contacts[1] = <<[phone |-> <<"A">>, is_verified |-> TRUE]>>
    /\ contacts[2] = <<NewContactRow>>

-----------------------------------------------------------------------------
(* The properties of command dispatch (SpecCmd) *)

\* C33: what runs for a command message is a function of its normalized
\* lowercase token with the platform suffix stripped: a token equal to a
\* built-in name runs that built-in whatever the letter case or suffix, and
\* any other token, one that merely begins with a built-in name included,
\* runs no built-in, is looked up as cmd:<token> and is rendered when the
\* store holds such an Action.
C33_DispatchByToken ==
    cmd_pc = "handled" =>
       LET token == parse_command_name(cmd_text)
       IN  IF token \in BuiltIns
           THEN cmd_ran.builtin = token
           ELSE /\ cmd_ran.builtin = <<>>
                /\ token # <<>> =>
                      /\ cmd_ran.looked_up = <<token>>
                      /\ cmd_ran.rendered <=> (token \in cmd_store)

-----------------------------------------------------------------------------
(* The properties of tenant isolation (SpecTenant) *)

\* C34: an approval or rejection handled for an event of tenant T changes
\* the status only of a request that belongs to T and debits only the
\* balance of the requesting user in T; an admin of another tenant who knows
\* the id can neither change the request nor cause a debit in any tenant.
C34_ApprovalStaysInTenant ==
    [][/\ tw'.status # tw.status => tlast' = tw.bot_id
       /\ \A b \in Tenants :
             tbal'[b] # tbal[b] => (b = tw.bot_id /\ tlast' = tw.bot_id)]_vars

-----------------------------------------------------------------------------
(* The properties of authorization (SpecAuth) *)

\* C35: of the events of a tenant only those sent by its owner, or by an
\* admin whose expiry is unset or in the future, change a withdrawal
\* request's status, debit a balance or change a premium flag; the same
\* events of any other sender, an admin whose expiry has passed included,
\* leave all of these unchanged.
C35_OnlyOwnerOrLiveAdmin ==
    [][(\/ auth_status' # auth_status
        \/ auth_balance' # auth_balance
        \/ auth_premium' # auth_premium)
          => \/ auth_last'.sender = "owner"
             \/ /\ auth_last'.sender = "admin"
                /\ admin_row # NULL
                /\ \/ Val(admin_row).expiry_at = NULL
                   \/ Val(Val(admin_row).expiry_at) > auth_now]_vars

\* an admin acted while the expiry was in the future, and the last event,
\* sent by the same admin after the expiry had passed, was refused
C35_Witness ==
    /\ auth_status = "APPROVED"
    /\ auth_balance = 0
    /\ auth_premium = FALSE
    /\ admin_row # NULL
    /\ Val(admin_row).expiry_at # NULL
    /\ Val(Val(admin_row).expiry_at) <= auth_now
    /\ auth_last = [sender |-> "admin", ok |-> FALSE]
    /\ nAuthEvents = 2

-----------------------------------------------------------------------------
(* The properties of concurrent request creation (SpecReq) *)

\* C36: each entry into the await_withdraw state yields at most one
\* withdrawal request record, also when several text messages of the user
\* are processed concurrently while the state is active: there are never
\* more records than entries into the state (each entry sends one prompt).
C36_OneRequestPerEntry ==
    Len(withdrawals)
       <= Cardinality({i \in DOMAIN outbox : outbox[i].kind = "prompt"})

-----------------------------------------------------------------------------
(* The properties of a scanner button press (SpecScan) *)

\* the change of the daily usage counter by the last press
ScanDelta ==
    (IF scan_count = NULL THEN 0 ELSE Val(scan_count))
      - (IF scan_before = NULL THEN 0 ELSE Val(scan_before))

\* C37: one press of a scanner button changes the daily usage counter by
\* exactly one when the scan result is delivered and by zero when the press
\* is denied by the daily limit, the cooldown or an access gate; with a
\* daily limit of 1 the first press of the day (by a user who passes the
\* gates, on a provider with media and games and no Action) delivers a
\* scan result.
C37_OneScanOneCount ==
    nPresses > 0 =>
       /\ (scan_outcome = "result" /\ ~Unlimited(scan_limit)) => ScanDelta = 1
       /\ scan_outcome \in {"limit", "cooldown", "gate"} => ScanDelta = 0
       /\ (/\ scan_limit = <<1>>
           /\ scan_before = NULL
           /\ scan_media /\ scan_games /\ ~scan_act
           /\ scan_outcome # "gate") => scan_outcome = "result"

-----------------------------------------------------------------------------
(* The properties of deferred actions under fairness (SpecDeferFair) *)

\* the history holds an entry of this kind for the message of press p
Reached(p, what) == \E i \in DOMAIN dlog : dlog[i].p = p /\ dlog[i].what = what

\* C38: under fair firing of deferred tasks, every message that a delayed
\* button press has put into the loading representation is eventually
\* edited to the Action's final result, also when the Action is deleted or
\* the user stops passing an access gate before the task fires.
C38_LoadingEventuallyFinal ==
    \A p \in Procs : Reached(p, "loading") ~> Reached(p, "final")

-----------------------------------------------------------------------------
(* The properties of the share counter (SpecRef) *)

\* the users of the tenant whose upline reference is u and whose credited
\* flag is TRUE, in the rows rs
CreditedDownlines(rs, u) ==
    {v \in Uids : /\ rs[v] # NULL
                  /\ Val(rs[v]).upline_user_id = <<u>>
                  /\ Val(rs[v]).credited_upline}

\* C39: in every reachable state the share counter of every user equals the
\* number of users of the tenant whose upline reference is that user and
\* whose credited flag is TRUE; and the counter, the balance credit and the
\* credited flag change together: a step changes the counter of a user, or
\* the user's balance, exactly when it makes a credited downline of that
\* user, and then by one per such downline.
C39_ShareCounterMatchesCredited ==
    /\ [](\A u \in Uids :
            users[u] # NULL =>
               Val(users[u]).shared_count = Cardinality(CreditedDownlines(users, u)))
    /\ [][\A u \in Uids :
            (users[u] # NULL /\ users'[u] # NULL) =>
               LET new == CreditedDownlines(users', u) \ CreditedDownlines(users, u)
               IN  /\ Val(users'[u]).shared_count
                         = Val(users[u]).shared_count + Cardinality(new)
                   /\ (Val(users'[u]).balance # Val(users[u]).balance) <=> (new # {})
                   /\ CreditedDownlines(users, u) \subseteq CreditedDownlines(users', u)
       ]_vars

\* a user with one credited downline and a share counter of 1, next to a
\* user whose upline reference was not credited
C39_Witness ==
    \E u, v, w \in Uids :
        /\ users[u] # NULL /\ users[v] # NULL /\ users[w] # NULL
        /\ Val(users[u]).shared_count = 1
        /\ Val(users[v]).upline_user_id = <<u>> /\ Val(users[v]).credited_upline
        /\ Val(users[w]).upline_user_id # NULL /\ ~Val(users[w]).credited_upline

-----------------------------------------------------------------------------
(* The properties of the delivery of a scan result (SpecEdit) *)

\* C40: send_scanner_result_edit returns True only if an edit of the
\* current message actually succeeded; whenever every in-place edit attempt
\* fails, it returns False and the caller delivers the scan result as a new
\* message, so that after an admitted scan the pressed message shows the
\* result or the result was sent as a new message.
C40_TrueOnlyIfEdited ==
    nDeliveries > 0 =>
       /\ ed_last.ret => ed_last.edited
       /\ ~ed_last.edited => (~ed_last.ret /\ ed_last.sent)
       /\ ed_shown = "result" \/ ed_last.sent

=============================================================================
